---- MODULE Spec2Model ----
(***************************************************************************)
(* Model of the ai-audit repository's visible slice:                       *)
(*   - the REST client (lib/api: request, workspacesApi, documentsApi,     *)
(*     interviewsApi, pipelineApi, exportsApi),                            *)
(*   - the data-fetching hooks and the pages that use them (query cache,   *)
(*     mutations, invalidation, interval polling, toasts),                 *)
(*   - the smoke-test script and the backend start scripts.                *)
(* Each program has its own specification over the shared variables:       *)
(* ApiSpec, Spec (the web application), SmokeSpec / SmokeFairSpec,         *)
(* DevSpec (the start scripts), WatchSpec / WatchFairSpec (pipeline and    *)
(* exports pages against a backend that makes progress), UploadSpec (the   *)
(* upload page's handlers), FormSpec (the create dialog and form), NavSpec *)
(* (routes and the tab strip) and DetailSpec (the workspace detail page).  *)
(***************************************************************************)
EXTENDS Integers, Sequences, FiniteSets, TLC

VARIABLES
  apiBase,      \* API_BASE_URL is configured (non-empty)
  apiCall,      \* the REST-client function last invoked, with its arguments
  apiNet,       \* what fetch did for that invocation
  apiOutcome,   \* how the invocation settled, and the request it issued
  page,         \* the mounted route of the web application
  queries,      \* query cache: key -> query state
  mutations,    \* mutation observers of the mounted page: hook -> state
  toasts,       \* toast notifications on screen, oldest first
  smoke,        \* the smoke script's variables and position
  smokeLog,     \* HTTP requests the smoke script issued, in order
  dev,          \* a backend start script: its parameters, host and position
  backend,      \* what the backend holds for the workspace being watched
  batches,      \* upload page: the running drop / file-select handlers
  form,         \* the create-workspace dialog / new-interview form
  location      \* the router's pathname, as a sequence of tokens

vars == <<apiBase, apiCall, apiNet, apiOutcome, page, queries, mutations,
          toasts, smoke, smokeLog, dev, backend, batches, form, location>>

apiVars == <<apiBase, apiCall, apiNet, apiOutcome>>
webVars == <<page, queries, mutations, toasts>>
smokeVars == <<smoke, smokeLog>>
otherVars == <<dev, backend, batches, form, location>>

-----------------------------------------------------------------------------
(* Identifiers the backend hands out.                                      *)

Workspaces == {"w1", "w2"}
Documents == {"d1"}
Interviews == {"i1"}
ExportIds == {"e1"}
NoId == "-"
None == "none"

-----------------------------------------------------------------------------
(* REST client (lib/api).                                                  *)

\* What fetch can do: reject (network failure) or resolve with a response.
HttpStatuses == {200, 204, 404, 500}
NoMessage == ""
NoCode == "undefined"

NetworkFailure == [net |-> "failed"]

Responses ==
  { [net |-> "response", status |-> s, json |-> j, body |-> "object",
     message |-> m, code |-> c] :
      s \in HttpStatuses, j \in BOOLEAN,
      m \in {NoMessage, "server message"}, c \in {NoCode, "E_SERVER"} }
  \cup
  { [net |-> "response", status |-> s, json |-> j, body |-> b,
     message |-> NoMessage, code |-> NoCode] :
      s \in HttpStatuses, j \in BOOLEAN, b \in {"unparsable", "null"} }

FetchResults == {NetworkFailure} \cup Responses

\* response.ok
ResponseOk(r) == r.status >= 200 /\ r.status <= 299

\* class ApiError extends Error { message, status, code? }
ApiError(message, status, code) ==
  [kind |-> "ApiError", message |-> message, status |-> status, code |-> code]

\* An error that is not an ApiError: fetch's TypeError, json()'s SyntaxError.
RawError(name) == [kind |-> name]

Resolved == [kind |-> "resolved"]

\* request<T>(endpoint, options): the settled promise and whether fetch ran.
request(configured, r) ==
  IF ~configured
    THEN [sent |-> FALSE,
          result |-> ApiError("API not configured. Set VITE_API_BASE_URL environment variable.",
                             0, NoCode)]
  ELSE IF r.net = "failed"
    THEN [sent |-> TRUE, result |-> RawError("TypeError")]
  ELSE IF ~r.json
    THEN [sent |-> TRUE,
          result |-> ApiError("API returned non-JSON response. Check VITE_API_BASE_URL configuration.",
                             r.status, NoCode)]
  ELSE IF r.body = "unparsable"
    THEN [sent |-> TRUE, result |-> RawError("SyntaxError")]
  ELSE IF ~ResponseOk(r)
    THEN IF r.body = "null"
           THEN [sent |-> TRUE, result |-> RawError("TypeError")]
           ELSE [sent |-> TRUE,
                 result |-> ApiError(IF r.message # NoMessage THEN r.message
                                     ELSE "An error occurred",
                                     r.status, r.code)]
  ELSE [sent |-> TRUE, result |-> Resolved]

\* documentsApi.upload: multipart fetch without request().
upload(configured, r) ==
  IF r.net = "failed"
    THEN [sent |-> TRUE, result |-> RawError("TypeError")]
  ELSE IF ~ResponseOk(r)
    THEN IF r.body = "null"
           THEN [sent |-> TRUE, result |-> RawError("TypeError")]
           ELSE [sent |-> TRUE,
                 result |-> ApiError(IF r.body = "object" /\ r.message # NoMessage
                                       THEN r.message ELSE "Upload failed",
                                     r.status, NoCode)]
  ELSE IF r.body = "unparsable"
    THEN [sent |-> TRUE, result |-> RawError("SyntaxError")]
  ELSE [sent |-> TRUE, result |-> Resolved]

\* exportsApi.download: plain fetch, resolves with the blob.
download(configured, r) ==
  IF r.net = "failed"
    THEN [sent |-> TRUE, result |-> RawError("TypeError")]
  ELSE IF ~ResponseOk(r)
    THEN [sent |-> TRUE, result |-> ApiError("Download failed", r.status, NoCode)]
  ELSE [sent |-> TRUE, result |-> Resolved]

\* The functions of the five API objects, by the arguments that reach the URL.
RootFns == {"workspacesApi.list", "workspacesApi.create"}
WorkspaceFns ==
  {"workspacesApi.get", "workspacesApi.update", "workspacesApi.delete",
   "documentsApi.list", "documentsApi.upload",
   "interviewsApi.list", "interviewsApi.create",
   "pipelineApi.get", "pipelineApi.start", "pipelineApi.cancel",
   "exportsApi.list", "exportsApi.create"}
DocumentFns == {"documentsApi.delete"}
InterviewFns ==
  {"interviewsApi.get", "interviewsApi.getQuestions",
   "interviewsApi.submitResponses"}
ExportFns == {"exportsApi.download"}

ApiCalls ==
  { [fn |-> f, ws |-> NoId, id |-> NoId] : f \in RootFns }
  \cup { [fn |-> f, ws |-> w, id |-> NoId] : f \in WorkspaceFns, w \in Workspaces }
  \cup { [fn |-> f, ws |-> w, id |-> d] :
           f \in DocumentFns, w \in Workspaces, d \in Documents }
  \cup { [fn |-> f, ws |-> w, id |-> i] :
           f \in InterviewFns, w \in Workspaces, i \in Interviews }
  \cup { [fn |-> f, ws |-> w, id |-> e] :
           f \in ExportFns, w \in Workspaces, e \in ExportIds }

\* The method and path (segments after API_BASE_URL) each function requests.
Endpoint(c) ==
  CASE c.fn = "workspacesApi.list" ->
         [method |-> "GET", path |-> <<"workspaces">>]
    [] c.fn = "workspacesApi.get" ->
         [method |-> "GET", path |-> <<"workspaces", c.ws>>]
    [] c.fn = "workspacesApi.create" ->
         [method |-> "POST", path |-> <<"workspaces">>]
    [] c.fn = "workspacesApi.update" ->
         [method |-> "PATCH", path |-> <<"workspaces", c.ws>>]
    [] c.fn = "workspacesApi.delete" ->
         [method |-> "DELETE", path |-> <<"workspaces", c.ws>>]
    [] c.fn = "documentsApi.list" ->
         [method |-> "GET", path |-> <<"workspaces", c.ws, "documents">>]
    [] c.fn = "documentsApi.upload" ->
         [method |-> "POST", path |-> <<"workspaces", c.ws, "documents">>]
    [] c.fn = "documentsApi.delete" ->
         [method |-> "DELETE", path |-> <<"workspaces", c.ws, "documents", c.id>>]
    [] c.fn = "interviewsApi.list" ->
         [method |-> "GET", path |-> <<"workspaces", c.ws, "interviews">>]
    [] c.fn = "interviewsApi.get" ->
         [method |-> "GET", path |-> <<"workspaces", c.ws, "interviews", c.id>>]
    [] c.fn = "interviewsApi.create" ->
         [method |-> "POST", path |-> <<"workspaces", c.ws, "interviews">>]
    [] c.fn = "interviewsApi.getQuestions" ->
         [method |-> "GET",
          path |-> <<"workspaces", c.ws, "interviews", c.id, "questions">>]
    [] c.fn = "interviewsApi.submitResponses" ->
         [method |-> "POST",
          path |-> <<"workspaces", c.ws, "interviews", c.id, "responses">>]
    [] c.fn = "pipelineApi.get" ->
         [method |-> "GET", path |-> <<"workspaces", c.ws, "pipeline">>]
    [] c.fn = "pipelineApi.start" ->
         [method |-> "POST", path |-> <<"workspaces", c.ws, "pipeline", "start">>]
    [] c.fn = "pipelineApi.cancel" ->
         [method |-> "POST", path |-> <<"workspaces", c.ws, "pipeline", "cancel">>]
    [] c.fn = "exportsApi.list" ->
         [method |-> "GET", path |-> <<"workspaces", c.ws, "exports">>]
    [] c.fn = "exportsApi.create" ->
         [method |-> "POST", path |-> <<"workspaces", c.ws, "exports">>]
    [] c.fn = "exportsApi.download" ->
         [method |-> "GET",
          path |-> <<"workspaces", c.ws, "exports", c.id, "download">>]

\* Which transport a function uses.
Transport(c, configured, r) ==
  CASE c.fn = "documentsApi.upload" -> upload(configured, r)
    [] c.fn = "exportsApi.download" -> download(configured, r)
    [] OTHER -> request(configured, r)

\* One REST-client call: the request fetch was given (if any) and the outcome.
ApiInvoke(c, configured, r) ==
  LET t == Transport(c, configured, r)
  IN  [sent |-> t.sent,
       request |-> IF t.sent THEN Endpoint(c) ELSE [method |-> None, path |-> <<>>],
       result |-> t.result]

NoCall == [fn |-> None, ws |-> NoId, id |-> NoId]
NoRequest == [method |-> None, path |-> <<>>]
NoOutcome == [sent |-> FALSE, request |-> NoRequest, result |-> [kind |-> None]]
PendingOutcome ==
  [sent |-> FALSE, request |-> NoRequest, result |-> [kind |-> "pending"]]
NetPending == [net |-> "pending"]

ApiIdle ==
  /\ apiCall = NoCall
  /\ apiNet = NetPending
  /\ apiOutcome = NoOutcome

\* The start scripts, the watched backend and the upload handlers at rest.
DevIdle == dev = [pc |-> None]
BackendIdle == backend = [pc |-> None]
UploadIdle == batches = <<>>

FormIdle == form = [open |-> FALSE]

LocationIdle == location = <<>>

OtherIdle == DevIdle /\ BackendIdle /\ UploadIdle /\ FormIdle /\ LocationIdle

\* A caller invokes one function of the client; the promise is pending.
Invoke ==
  /\ apiOutcome.result.kind # "pending"
  /\ \E c \in ApiCalls :
       /\ apiCall' = c
       /\ apiNet' = NetPending
       /\ apiOutcome' = PendingOutcome
  /\ UNCHANGED <<apiBase, webVars, smokeVars, otherVars>>

\* The call runs to its end against whatever fetch does, and settles.
Settle ==
  /\ apiOutcome.result.kind = "pending"
  /\ \E r \in FetchResults :
       /\ apiNet' = r
       /\ apiOutcome' = ApiInvoke(apiCall, apiBase, r)
  /\ UNCHANGED <<apiBase, apiCall, webVars, smokeVars, otherVars>>

-----------------------------------------------------------------------------
(* Web application: query client, hooks and pages.                         *)

\* Bound on the toasts kept on screen.
MaxToasts == 2

\* refetchInterval of usePipeline, in milliseconds.
PollIntervalMs == 5000

\* Mutant: the QueryClient built without defaultOptions (the library's three
\* retries).
QueryRetry_libraryDefault == 1 + 2

\* new QueryClient({ defaultOptions: { queries: { retry: 1 } } })
QueryRetry == 1

\* useMutation({ mutationFn, onSuccess }): no retry option, so none is made.
MutationRetry == 0

PipelineStatuses == {"idle", "running", "completed", "failed"}

Routes == {"list", "detail", "upload", "interview", "pipeline", "exports", "other"}

Pages ==
  {[route |-> "list", ws |-> NoId]}
  \cup { [route |-> r, ws |-> w] : r \in Routes \ {"list"}, w \in Workspaces }

\* Every query key a hook of the application can build.
AllKeys ==
  {<<"workspaces">>}
  \cup { <<res, w>> : res \in {"workspaces", "documents", "interviews",
                               "pipeline", "exports"},
                      w \in Workspaces }
  \cup { <<"interviews", w, i>> : w \in Workspaces, i \in Interviews }
  \cup { <<"interviews", w, i, "questions">> : w \in Workspaces, i \in Interviews }

\* The queries each page observes (useWorkspaces, useWorkspace, useDocuments,
\* useInterviews, usePipeline, useExports; "other" stands for the components
\* that use useInterview and useInterviewQuestions).
ActiveKeys(pg) ==
  CASE pg.route = "list" -> {<<"workspaces">>}
    [] pg.route = "detail" ->
         {<<"workspaces", pg.ws>>, <<"documents", pg.ws>>,
          <<"interviews", pg.ws>>, <<"pipeline", pg.ws>>}
    [] pg.route = "upload" -> {<<"workspaces", pg.ws>>, <<"documents", pg.ws>>}
    [] pg.route = "interview" -> {<<"workspaces", pg.ws>>, <<"interviews", pg.ws>>}
    [] pg.route = "pipeline" -> {<<"workspaces", pg.ws>>, <<"pipeline", pg.ws>>}
    [] pg.route = "exports" -> {<<"workspaces", pg.ws>>, <<"exports", pg.ws>>}
    [] pg.route = "other" ->
         { <<"interviews", pg.ws, i>> : i \in Interviews }
         \cup { <<"interviews", pg.ws, i, "questions">> : i \in Interviews }
    [] OTHER -> {}

\* The query whose isLoading / error / refetch the page renders.
PrimaryKey(pg) ==
  CASE pg.route = "list" -> <<"workspaces">>
    [] pg.route = "detail" -> <<"workspaces", pg.ws>>
    [] pg.route = "upload" -> <<"documents", pg.ws>>
    [] pg.route = "interview" -> <<"interviews", pg.ws>>
    [] pg.route = "pipeline" -> <<"pipeline", pg.ws>>
    [] pg.route = "exports" -> <<"exports", pg.ws>>
    [] OTHER -> <<>>

\* queryFn of each key.
QueryFn(k) ==
  CASE k = <<"workspaces">> -> [fn |-> "workspacesApi.list", ws |-> NoId, id |-> NoId]
    [] Len(k) = 2 /\ k[1] = "workspaces" ->
         [fn |-> "workspacesApi.get", ws |-> k[2], id |-> NoId]
    [] Len(k) = 2 /\ k[1] = "documents" ->
         [fn |-> "documentsApi.list", ws |-> k[2], id |-> NoId]
    [] Len(k) = 2 /\ k[1] = "interviews" ->
         [fn |-> "interviewsApi.list", ws |-> k[2], id |-> NoId]
    [] Len(k) = 3 /\ k[1] = "interviews" ->
         [fn |-> "interviewsApi.get", ws |-> k[2], id |-> k[3]]
    [] Len(k) = 4 /\ k[1] = "interviews" ->
         [fn |-> "interviewsApi.getQuestions", ws |-> k[2], id |-> k[3]]
    [] Len(k) = 2 /\ k[1] = "pipeline" ->
         [fn |-> "pipelineApi.get", ws |-> k[2], id |-> NoId]
    [] Len(k) = 2 /\ k[1] = "exports" ->
         [fn |-> "exportsApi.list", ws |-> k[2], id |-> NoId]

\* What a resolved queryFn can put in the cache: for the pipeline its status
\* (data.data.status), for the others an opaque payload.
DataOf(k) == IF k[1] = "pipeline" THEN PipelineStatuses ELSE {"data"}

\* The field path a page reads from the body its query cached: documents?.data,
\* exports?.data, interviews?.data, data?.data (lists), workspace?.data,
\* pipeline?.data (single resources).
PageReads(k) ==
  CASE k = <<"workspaces">> -> <<"data">>
    [] Len(k) = 2 /\ k[1] = "workspaces" -> <<"data", "name">>
    [] Len(k) = 2 /\ k[1] = "pipeline" -> <<"data", "status">>
    [] OTHER -> <<"data">>

\* Mutant: poll unless the pipeline has completed.
refetchInterval_untilCompleted(k, data) ==
  IF k[1] = "pipeline" /\ data # "completed" THEN PollIntervalMs ELSE 0

\* refetchInterval: usePipeline polls while the cached status is running; the
\* other hooks set none. 0 stands for false (no interval).
refetchInterval(k, data) ==
  IF k[1] = "pipeline" /\ data = "running" THEN PollIntervalMs ELSE 0

\* A query as first observed: no data, its first fetch under way.
MountedQuery(k) ==
  [status |-> "pending", data |-> None, fetching |-> TRUE, failureCount |-> 0,
   interval |-> refetchInterval(k, None)]

\* A fetch (mount, refetch, interval, invalidation) starts; without data the
\* query goes back to pending and drops its error.
StartFetch(k, q) ==
  [q EXCEPT !.fetching = TRUE, !.failureCount = 0,
            !.status = IF q.data = None THEN "pending" ELSE @]

\* queryFn resolved.
FetchResolved(k, q, data) ==
  [q EXCEPT !.status = "success", !.data = data, !.fetching = FALSE,
            !.failureCount = 0, !.interval = refetchInterval(k, data)]

\* Mutant: the error state discards the cached data.
FetchRejected_dropsData(k, q) ==
  IF q.failureCount < QueryRetry
    THEN [q EXCEPT !.failureCount = @ + 1]
    ELSE [q EXCEPT !.failureCount = @ + 1, !.status = "error", !.fetching = FALSE,
                   !.data = None, !.interval = refetchInterval(k, None)]

\* queryFn rejected: retried while failureCount < retry, else the error state
\* (the cached data is kept).
FetchRejected(k, q) ==
  IF q.failureCount < QueryRetry
    THEN [q EXCEPT !.failureCount = @ + 1]
    ELSE [q EXCEPT !.failureCount = @ + 1, !.status = "error", !.fetching = FALSE,
                   !.interval = refetchInterval(k, q.data)]

\* filter.queryKey matches every key it is a prefix of.
MatchesFilter(filter, k) ==
  /\ Len(filter) <= Len(k)
  /\ SubSeq(k, 1, Len(filter)) = filter

\* queryClient.invalidateQueries for each filter: the matched cache entries.
Invalidated(filters) ==
  { k \in AllKeys : \E i \in 1..Len(filters) : MatchesFilter(filters[i], k) }

\* Active matched queries refetch at once.
RefetchInvalidated(qs, matched) ==
  [k \in DOMAIN qs |-> IF k \in matched THEN StartFetch(k, qs[k]) ELSE qs[k]]

\* The mutation hooks.
Hooks ==
  {"useCreateWorkspace", "useUpdateWorkspace", "useDeleteWorkspace",
   "useUploadDocument", "useDeleteDocument",
   "useCreateInterview", "useSubmitInterviewResponses",
   "useStartPipeline", "useCancelPipeline",
   "useCreateExport", "useDownloadExport"}

\* mutationFn of each hook, by its variables.
MutationFn(h, v) ==
  CASE h = "useCreateWorkspace" ->
         [fn |-> "workspacesApi.create", ws |-> NoId, id |-> NoId]
    [] h = "useUpdateWorkspace" ->
         [fn |-> "workspacesApi.update", ws |-> v.ws, id |-> NoId]
    [] h = "useDeleteWorkspace" ->
         [fn |-> "workspacesApi.delete", ws |-> v.ws, id |-> NoId]
    [] h = "useUploadDocument" ->
         [fn |-> "documentsApi.upload", ws |-> v.ws, id |-> NoId]
    [] h = "useDeleteDocument" ->
         [fn |-> "documentsApi.delete", ws |-> v.ws, id |-> v.id]
    [] h = "useCreateInterview" ->
         [fn |-> "interviewsApi.create", ws |-> v.ws, id |-> NoId]
    [] h = "useSubmitInterviewResponses" ->
         [fn |-> "interviewsApi.submitResponses", ws |-> v.ws, id |-> v.id]
    [] h = "useStartPipeline" ->
         [fn |-> "pipelineApi.start", ws |-> v.ws, id |-> NoId]
    [] h = "useCancelPipeline" ->
         [fn |-> "pipelineApi.cancel", ws |-> v.ws, id |-> NoId]
    [] h = "useCreateExport" ->
         [fn |-> "exportsApi.create", ws |-> v.ws, id |-> NoId]
    [] h = "useDownloadExport" ->
         [fn |-> "exportsApi.download", ws |-> v.ws, id |-> v.id]

\* Mutant: useUploadDocument refreshing the workspace list instead of the
\* workspace it uploaded to.
OnSuccessFilters_uploadListKey(h, v) ==
  CASE h \in {"useCreateWorkspace", "useDeleteWorkspace"} -> <<<<"workspaces">>>>
    [] h = "useUpdateWorkspace" -> <<<<"workspaces">>, <<"workspaces", v.ws>>>>
    [] h = "useUploadDocument" -> <<<<"documents", v.ws>>, <<"workspaces">>>>
    [] h = "useDeleteDocument" -> <<<<"documents", v.ws>>, <<"workspaces", v.ws>>>>
    [] h = "useCreateInterview" ->
         <<<<"interviews", v.ws>>, <<"workspaces", v.ws>>>>
    [] h = "useSubmitInterviewResponses" ->
         <<<<"interviews", v.ws, v.id>>, <<"interviews", v.ws>>>>
    [] h \in {"useStartPipeline", "useCancelPipeline"} -> <<<<"pipeline", v.ws>>>>
    [] h = "useCreateExport" -> <<<<"exports", v.ws>>>>
    [] h = "useDownloadExport" -> <<>>

\* onSuccess of each hook: the queryKey filters it invalidates, in order.
OnSuccessFilters(h, v) ==
  CASE h \in {"useCreateWorkspace", "useDeleteWorkspace"} -> <<<<"workspaces">>>>
    [] h = "useUpdateWorkspace" -> <<<<"workspaces">>, <<"workspaces", v.ws>>>>
    [] h \in {"useUploadDocument", "useDeleteDocument"} ->
         <<<<"documents", v.ws>>, <<"workspaces", v.ws>>>>
    [] h = "useCreateInterview" ->
         <<<<"interviews", v.ws>>, <<"workspaces", v.ws>>>>
    [] h = "useSubmitInterviewResponses" ->
         <<<<"interviews", v.ws, v.id>>, <<"interviews", v.ws>>>>
    [] h \in {"useStartPipeline", "useCancelPipeline"} -> <<<<"pipeline", v.ws>>>>
    [] h = "useCreateExport" -> <<<<"exports", v.ws>>>>
    [] h = "useDownloadExport" -> <<>>

\* Mutant: onError wired to the same invalidation as onSuccess.
OnErrorFilters_likeSuccess(h, v) == OnSuccessFilters(h, v)

\* No hook passes onError or onSettled: a failed mutation invalidates nothing.
OnErrorFilters(h, v) == <<>>

\* The mutation hooks each page calls ("other": the hooks no visible page uses).
PageHooks(pg) ==
  CASE pg.route = "list" -> {"useCreateWorkspace"}
    [] pg.route = "upload" -> {"useUploadDocument", "useDeleteDocument"}
    [] pg.route = "interview" -> {"useCreateInterview"}
    [] pg.route = "pipeline" -> {"useStartPipeline", "useCancelPipeline"}
    [] pg.route = "exports" -> {"useCreateExport", "useDownloadExport"}
    [] pg.route = "other" ->
         {"useUpdateWorkspace", "useDeleteWorkspace", "useSubmitInterviewResponses"}
    [] OTHER -> {}

\* The variables a page passes to mutateAsync: its route's id and the item.
MutationVars(pg, h) ==
  CASE h \in {"useDeleteDocument"} -> { [ws |-> pg.ws, id |-> d] : d \in Documents }
    [] h \in {"useSubmitInterviewResponses"} ->
         { [ws |-> pg.ws, id |-> i] : i \in Interviews }
    [] h \in {"useDownloadExport"} -> { [ws |-> pg.ws, id |-> e] : e \in ExportIds }
    [] OTHER -> { [ws |-> pg.ws, id |-> NoId] }

IdleMutation ==
  [status |-> "idle", vars |-> [ws |-> NoId, id |-> NoId], failureCount |-> 0,
   filters |-> <<>>, invalidated |-> {}]

\* toast({ title, description, variant }): no page passes an action.
Toast(title, description) ==
  [title |-> title, description |-> description, variant |-> "default",
   action |-> None]

\* Mutant: the error toast given a retry action.
ErrorToast_withRetry(description) ==
  [title |-> "Error", description |-> description, variant |-> "destructive",
   action |-> "retry"]

\* toast({ title: 'Error', description, variant: 'destructive' })
ErrorToast(description) ==
  [title |-> "Error", description |-> description, variant |-> "destructive",
   action |-> None]

\* The toast each page handler shows after await mutateAsync(...) resolved.
SuccessToast(h) ==
  CASE h = "useCreateWorkspace" -> <<Toast("Success", "Workspace created successfully")>>
    [] h = "useUploadDocument" -> <<Toast("Success", "uploaded successfully")>>
    [] h = "useDeleteDocument" -> <<Toast("Success", "deleted")>>
    [] h = "useCreateInterview" -> <<Toast("Success", "Interview created successfully")>>
    [] h = "useStartPipeline" ->
         <<Toast("Pipeline Started", "The analysis pipeline has been initiated.")>>
    [] h = "useCancelPipeline" ->
         <<Toast("Pipeline Cancelled", "The analysis pipeline has been stopped.")>>
    [] h = "useCreateExport" ->
         <<Toast("Export Started", "Your report is being generated.")>>
    [] h = "useDownloadExport" ->
         <<Toast("Download Started", "Your file is being downloaded.")>>
    [] OTHER -> <<>>

\* The toast each page handler shows in its catch block.
FailureToast(h) ==
  CASE h = "useCreateWorkspace" -> <<ErrorToast("Failed to create workspace")>>
    [] h = "useUploadDocument" -> <<ErrorToast("Failed to upload")>>
    [] h = "useDeleteDocument" -> <<ErrorToast("Failed to delete document")>>
    [] h = "useCreateInterview" -> <<ErrorToast("Failed to create interview")>>
    [] h = "useStartPipeline" -> <<ErrorToast("Failed to start pipeline")>>
    [] h = "useCancelPipeline" -> <<ErrorToast("Failed to cancel pipeline")>>
    [] h = "useCreateExport" -> <<ErrorToast("Failed to create export")>>
    [] h = "useDownloadExport" -> <<ErrorToast("Failed to download export")>>
    [] OTHER -> <<>>

\* {error && <ErrorState message={...} onRetry={refetch} />}
ErrorState(pg, qs) ==
  IF pg.route # "other" /\ qs[PrimaryKey(pg)].status = "error"
    THEN [shown |-> TRUE, onRetry |-> "refetch"]
    ELSE [shown |-> FALSE, onRetry |-> None]

PipelineStatusShown(pg, qs) == qs[<<"pipeline", pg.ws>>].data

\* Mutant: the Cancel button kept for a failed pipeline as well.
PipelineControl_cancelUnlessDone(pg, qs, ms) ==
  IF PipelineStatusShown(pg, qs) \in {"running", "failed"}
    THEN [control |-> "cancel", label |-> "Cancel",
          disabled |-> ms["useCancelPipeline"].status = "pending"]
    ELSE [control |-> "start",
          label |-> IF PipelineStatusShown(pg, qs) = "completed"
                      THEN "Re-run Pipeline" ELSE "Start Pipeline",
          disabled |-> \/ ms["useStartPipeline"].status = "pending"
                       \/ PipelineStatusShown(pg, qs) = "completed"]

\* The one button in the pipeline card's header:
\* {isRunning ? <Button ... Cancel> : <Button ... Start / Re-run>}
PipelineControl(pg, qs, ms) ==
  IF PipelineStatusShown(pg, qs) = "running"
    THEN [control |-> "cancel", label |-> "Cancel",
          disabled |-> ms["useCancelPipeline"].status = "pending"]
    ELSE [control |-> "start",
          label |-> IF PipelineStatusShown(pg, qs) = "completed"
                      THEN "Re-run Pipeline" ELSE "Start Pipeline",
          disabled |-> \/ ms["useStartPipeline"].status = "pending"
                       \/ PipelineStatusShown(pg, qs) = "completed"]

\* Whether the page lets the user start the mutation now (the control is
\* rendered and not disabled).
CanMutate(pg, qs, ms, h) ==
  /\ ms[h].status # "pending"
  /\ h = "useCancelPipeline" =>
       /\ PipelineControl(pg, qs, ms).control = "cancel"
       /\ ~PipelineControl(pg, qs, ms).disabled
  /\ h = "useStartPipeline" =>
       /\ PipelineControl(pg, qs, ms).control = "start"
       /\ ~PipelineControl(pg, qs, ms).disabled
  /\ h = "useDeleteDocument" => qs[<<"documents", pg.ws>>].data # None
  /\ h = "useDownloadExport" => qs[<<"exports", pg.ws>>].data # None

WebInit ==
  /\ apiBase \in BOOLEAN
  /\ ApiIdle
  /\ OtherIdle
  /\ page \in Pages
  /\ queries = [k \in ActiveKeys(page) |-> MountedQuery(k)]
  /\ mutations = [h \in PageHooks(page) |-> IdleMutation]
  /\ toasts = <<>>
  /\ smoke = [pc |-> None]
  /\ smokeLog = <<>>

\* The ways each call can settle, over everything fetch can do.
SettleKinds ==
  [c \in ApiCalls, b \in BOOLEAN |->
     { ApiInvoke(c, b, r).result.kind : r \in FetchResults }]

CanResolve(c) == "resolved" \in SettleKinds[c, apiBase]

CanReject(c) == SettleKinds[c, apiBase] \ {"resolved"} # {}

\* A fetch of an observed query resolves.
QueryResolve ==
  \E k \in DOMAIN queries :
    /\ queries[k].fetching
    /\ CanResolve(QueryFn(k))
    /\ \E d \in DataOf(k) :
         queries' = [queries EXCEPT ![k] = FetchResolved(k, @, d)]
    /\ UNCHANGED <<page, mutations, toasts, apiVars, smokeVars, otherVars>>

\* A fetch of an observed query rejects.
QueryReject ==
  \E k \in DOMAIN queries :
    /\ queries[k].fetching
    /\ CanReject(QueryFn(k))
    /\ queries' = [queries EXCEPT ![k] = FetchRejected(k, @)]
    /\ UNCHANGED <<page, mutations, toasts, apiVars, smokeVars, otherVars>>

\* The interval timer of an observed query fires.
IntervalRefetch ==
  \E k \in DOMAIN queries :
    /\ queries[k].interval > 0
    /\ ~queries[k].fetching
    /\ queries' = [queries EXCEPT ![k] = StartFetch(k, @)]
    /\ UNCHANGED <<page, mutations, toasts, apiVars, smokeVars, otherVars>>

\* The user activates Retry of the ErrorState: refetch().
RetryClick ==
  /\ page.route # "other"
  /\ ErrorState(page, queries).shown
  /\ ~queries[PrimaryKey(page)].fetching
  /\ queries' = [queries EXCEPT ![PrimaryKey(page)] = StartFetch(PrimaryKey(page), @)]
  /\ UNCHANGED <<page, mutations, toasts, apiVars, smokeVars, otherVars>>

\* A page handler calls mutateAsync.
Mutate ==
  \E h \in DOMAIN mutations :
    /\ CanMutate(page, queries, mutations, h)
    /\ Len(toasts) < MaxToasts
    /\ \E v \in MutationVars(page, h) :
         mutations' = [mutations EXCEPT ![h] =
                         [IdleMutation EXCEPT !.status = "pending", !.vars = v]]
    /\ UNCHANGED <<page, queries, toasts, apiVars, smokeVars, otherVars>>

\* mutationFn resolved: onSuccess invalidates, then the handler continues.
MutationResolve ==
  \E h \in DOMAIN mutations :
    /\ mutations[h].status = "pending"
    /\ CanResolve(MutationFn(h, mutations[h].vars))
    /\ LET f == OnSuccessFilters(h, mutations[h].vars)
       IN  /\ mutations' = [mutations EXCEPT ![h].status = "success",
                                             ![h].filters = f,
                                             ![h].invalidated = Invalidated(f)]
           /\ queries' = RefetchInvalidated(queries, Invalidated(f))
    /\ toasts' = toasts \o SuccessToast(h)
    /\ UNCHANGED <<page, apiVars, smokeVars, otherVars>>

\* mutationFn rejected: retried while failureCount < retry, else the handler's
\* catch block runs.
MutationReject ==
  \E h \in DOMAIN mutations :
    /\ mutations[h].status = "pending"
    /\ CanReject(MutationFn(h, mutations[h].vars))
    /\ IF mutations[h].failureCount < MutationRetry
         THEN /\ mutations' = [mutations EXCEPT ![h].failureCount = @ + 1]
              /\ UNCHANGED <<queries, toasts>>
         ELSE LET f == OnErrorFilters(h, mutations[h].vars)
              IN  /\ mutations' = [mutations EXCEPT ![h].status = "error",
                                                    ![h].failureCount = @ + 1,
                                                    ![h].filters = f,
                                                    ![h].invalidated = Invalidated(f)]
                  /\ queries' = RefetchInvalidated(queries, Invalidated(f))
                  /\ toasts' = toasts \o FailureToast(h)
    /\ UNCHANGED <<page, apiVars, smokeVars, otherVars>>

\* A toast leaves the screen (dismissed, or timed out).
DismissToast ==
  /\ toasts # <<>>
  /\ toasts' = Tail(toasts)
  /\ UNCHANGED <<page, queries, mutations, apiVars, smokeVars, otherVars>>

WebNext ==
  \/ QueryResolve
  \/ QueryReject
  \/ IntervalRefetch
  \/ RetryClick
  \/ Mutate
  \/ MutationResolve
  \/ MutationReject
  \/ DismissToast

Spec == WebInit /\ [][WebNext]_vars

-----------------------------------------------------------------------------
(* The other programs at rest while one runs alone.                        *)

WebIdle ==
  /\ page = [route |-> None, ws |-> NoId]
  /\ queries = <<>>
  /\ mutations = <<>>
  /\ toasts = <<>>

SmokeIdle ==
  /\ smoke = [pc |-> None]
  /\ smokeLog = <<>>

ApiInit ==
  /\ apiBase \in BOOLEAN
  /\ ApiIdle
  /\ OtherIdle
  /\ WebIdle
  /\ SmokeIdle

ApiNext == Invoke \/ Settle

ApiSpec == ApiInit /\ [][ApiNext]_vars

-----------------------------------------------------------------------------
(* Smoke-test script.                                                      *)

\* Bounds on the script's parameters and on what the backend answers.
MaxTimeout == 2
MaxPoll == 1
MaxReqTime == 2
MaxArtifacts == 1
MaxExports == 2

RunIds == {"r1"}
ArtifactIds == {"a1"}
EmptyId == ""
ExportItems == <<"e1", "e2", "e3">>

\* Statuses the backend may report for a run.
RunStatuses == {"running", "completed", "succeeded", "failed", "cancelled"}

\* $runStatus -in @("succeeded","failed","cancelled")
IsTerminal(st) == st \in {"succeeded", "failed", "cancelled"}

\* Mutant: the timeout comparison written -ge.
TimedOut_ge(elapsed, timeout) == elapsed >= timeout

\* ((Get-Date) - $start).TotalSeconds -gt $TimeoutSeconds
TimedOut(elapsed, timeout) == elapsed > timeout

\* Mutant: only a failed run is rejected after the loop.
RunNotSucceeded_onlyFailed(st) == st = "failed"

\* $runStatus -ne "succeeded"
RunNotSucceeded(st) == st # "succeeded"

\* The positions at which the script issues an HTTP request.
RequestSteps ==
  {"check", "create", "run", "poll", "listArtifacts", "downloadArtifact",
   "listExports", "downloadExport"}

\* The request each step issues: method and the path joined to $ApiBase.
SmokeRequest(step, wid, runId, itemId) ==
  CASE step = "check" -> [method |-> "GET", path |-> <<"openapi.json">>]
    [] step = "create" -> [method |-> "POST", path |-> <<"workspaces">>]
    [] step = "run" ->
         [method |-> "POST", path |-> <<"workspaces", wid, "pipeline", "run">>]
    [] step = "poll" ->
         [method |-> "GET", path |-> <<"workspaces", wid, "pipeline", "status">>]
    [] step = "listArtifacts" ->
         [method |-> "GET",
          path |-> <<"workspaces", wid, "runs", runId, "artifacts">>]
    [] step = "downloadArtifact" ->
         [method |-> "GET",
          path |-> <<"workspaces", wid, "runs", runId, "artifacts", itemId,
                     "download">>]
    [] step = "listExports" ->
         [method |-> "GET", path |-> <<"workspaces", wid, "exports">>]
    [] step = "downloadExport" ->
         [method |-> "GET",
          path |-> <<"workspaces", wid, "exports", itemId, "download">>]

\* The field paths the script reads from the reply of each step.
SmokeReads(step) ==
  CASE step = "create" -> {<<"data", "id">>}
    [] step = "run" -> {<<"data", "runId">>}
    [] step = "poll" -> {<<"data", "status">>, <<"data", "stages">>}
    [] step = "listArtifacts" -> {<<"total">>, <<"items">>}
    [] step = "listExports" -> {<<"total">>, <<"items">>}
    [] OTHER -> {}

\* The item a download step is about: $a0.id, or $ex.id of the current export.
SmokeItem ==
  CASE smoke.pc = "downloadArtifact" -> smoke.arts.items[1]
    [] smoke.pc = "downloadExport" -> smoke.exports[smoke.exIdx]
    [] OTHER -> NoId

\* Mutant: a hard-coded workspace id instead of the one just created.
AssignWid_hardCoded(replyId) == "w1"

\* $wid = $ws.data.id
AssignWid(replyId) == replyId

SmokeInit ==
  /\ \E t \in 0..MaxTimeout, p \in 0..MaxPoll :
       smoke = [pc |-> "check", inflight |-> FALSE,
                TimeoutSeconds |-> t, PollSeconds |-> p,
                wid |-> NoId, runId |-> NoId, elapsed |-> 0,
                runStatus |-> None,
                arts |-> [total |-> 0, items |-> <<>>],
                exports |-> <<>>, exIdx |-> 0, warned |-> FALSE,
                saved |-> {}, error |-> None]
  /\ smokeLog = <<>>
  /\ apiBase = FALSE
  /\ ApiIdle
  /\ OtherIdle
  /\ WebIdle

\* Invoke-RestMethod / Invoke-WebRequest: the request leaves.
SmokeSend ==
  /\ smoke.pc \in RequestSteps
  /\ ~smoke.inflight
  /\ smoke' = [smoke EXCEPT !.inflight = TRUE]
  /\ smokeLog' =
       Append(smokeLog,
              [step |-> smoke.pc,
               request |-> SmokeRequest(smoke.pc, smoke.wid, smoke.runId, SmokeItem),
               at |-> smoke.elapsed, ret |-> smoke.elapsed,
               outcome |-> "pending", reply |-> NoId])
  /\ UNCHANGED <<apiVars, webVars, otherVars>>

\* The last log entry, completed with how the request ended.
Returned(outcome, reply, now) ==
  [smokeLog EXCEPT ![Len(smokeLog)] =
     [@ EXCEPT !.outcome = outcome, !.reply = reply, !.ret = now]]

\* Any request fails (unreachable, non-2xx): with $ErrorActionPreference =
\* "Stop" the cmdlet's error terminates the script.
SmokeHttpError ==
  /\ smoke.inflight
  /\ \E d \in 1..MaxReqTime :
       /\ smoke' = [smoke EXCEPT !.inflight = FALSE, !.pc = "failed",
                                 !.error = "http",
                                 !.elapsed = IF smoke.pc = "poll" THEN @ + d ELSE @]
       /\ smokeLog' = Returned("failed", NoId,
                               IF smoke.pc = "poll" THEN smoke.elapsed + d
                               ELSE smoke.elapsed)
  /\ UNCHANGED <<apiVars, webVars, otherVars>>

\* 0) GET /openapi.json answered.
ReturnCheck ==
  /\ smoke.inflight /\ smoke.pc = "check"
  /\ smoke' = [smoke EXCEPT !.inflight = FALSE, !.pc = "create"]
  /\ smokeLog' = Returned("ok", NoId, smoke.elapsed)
  /\ UNCHANGED <<apiVars, webVars, otherVars>>

\* 1) workspace created: $wid = $ws.data.id
ReturnCreate ==
  /\ smoke.inflight /\ smoke.pc = "create"
  /\ \E w \in Workspaces :
       /\ smoke' = [smoke EXCEPT !.inflight = FALSE, !.pc = "run",
                                 !.wid = AssignWid(w)]
       /\ smokeLog' = Returned("ok", w, smoke.elapsed)
  /\ UNCHANGED <<apiVars, webVars, otherVars>>

\* 2) run started: $runId = $runResp.data.runId; then $start = Get-Date
ReturnRun ==
  /\ smoke.inflight /\ smoke.pc = "run"
  /\ \E r \in RunIds :
       /\ smoke' = [smoke EXCEPT !.inflight = FALSE, !.pc = "poll",
                                 !.runId = r, !.elapsed = 0]
       /\ smokeLog' = Returned("ok", r, smoke.elapsed)
  /\ UNCHANGED <<apiVars, webVars, otherVars>>

\* Where one iteration of the poll loop leaves the script, given the status
\* read and the time elapsed since $start.
AfterPoll(st, elapsed, timeout) ==
  IF IsTerminal(st)
    THEN IF RunNotSucceeded(st)
           THEN [pc |-> "failed", error |-> "status"]
           ELSE [pc |-> "listArtifacts", error |-> None]
  ELSE IF TimedOut(elapsed, timeout)
    THEN [pc |-> "failed", error |-> "timeout"]
  ELSE [pc |-> "sleep", error |-> None]

\* 3) a status answer arrives after d time units; the loop body runs.
ReturnPoll ==
  /\ smoke.inflight /\ smoke.pc = "poll"
  /\ \E st \in RunStatuses, d \in 1..MaxReqTime :
       LET now == smoke.elapsed + d
           to == AfterPoll(st, now, smoke.TimeoutSeconds)
       IN  /\ smoke' = [smoke EXCEPT !.inflight = FALSE, !.pc = to.pc,
                                     !.error = to.error, !.runStatus = st,
                                     !.elapsed = now]
           /\ smokeLog' = Returned("ok", NoId, now)
  /\ UNCHANGED <<apiVars, webVars, otherVars>>

\* Start-Sleep -Seconds $PollSeconds
SmokeSleep ==
  /\ smoke.pc = "sleep"
  /\ smoke' = [smoke EXCEPT !.pc = "poll", !.elapsed = @ + smoke.PollSeconds]
  /\ UNCHANGED <<smokeLog, apiVars, webVars, otherVars>>

\* Listings the backend may answer with: total and items are independent data.
ArtifactListings ==
  { [total |-> t, items |-> it] :
      t \in 0..MaxArtifacts,
      it \in UNION { [1..n -> ArtifactIds \cup {EmptyId}] : n \in 0..MaxArtifacts } }

\* if ($arts.total -gt 0 -and $arts.items[0].id), under Set-StrictMode Latest
AfterArtifacts(arts) ==
  IF arts.total > 0
    THEN IF Len(arts.items) = 0
           THEN [pc |-> "failed", error |-> "strict", warned |-> FALSE]
         ELSE IF arts.items[1] # EmptyId
           THEN [pc |-> "downloadArtifact", error |-> None, warned |-> FALSE]
         ELSE [pc |-> "listExports", error |-> None, warned |-> TRUE]
  ELSE [pc |-> "listExports", error |-> None, warned |-> TRUE]

\* 4) artifacts listed and saved to artifacts_list.json, then the test of the
\* first artifact.
ReturnListArtifacts ==
  /\ smoke.inflight /\ smoke.pc = "listArtifacts"
  /\ \E a \in ArtifactListings :
       LET to == AfterArtifacts(a)
       IN  smoke' = [smoke EXCEPT !.inflight = FALSE, !.pc = to.pc,
                                  !.error = to.error, !.warned = to.warned,
                                  !.arts = a,
                                  !.saved = @ \cup {"artifacts_list.json"}]
  /\ smokeLog' = Returned("ok", NoId, smoke.elapsed)
  /\ UNCHANGED <<apiVars, webVars, otherVars>>

\* first artifact downloaded.
ReturnDownloadArtifact ==
  /\ smoke.inflight /\ smoke.pc = "downloadArtifact"
  /\ smoke' = [smoke EXCEPT !.inflight = FALSE, !.pc = "listExports"]
  /\ smokeLog' = Returned("ok", NoId, smoke.elapsed)
  /\ UNCHANGED <<apiVars, webVars, otherVars>>

\* 5) exports listed and saved to exports_list.json; foreach ($ex in
\* $exports.items) starts.
ReturnListExports ==
  /\ smoke.inflight /\ smoke.pc = "listExports"
  /\ \E n \in 0..MaxExports :
       smoke' = [smoke EXCEPT !.inflight = FALSE,
                              !.exports = SubSeq(ExportItems, 1, n),
                              !.exIdx = 1,
                              !.saved = @ \cup {"exports_list.json"},
                              !.pc = IF n = 0 THEN "complete" ELSE "downloadExport"]
  /\ smokeLog' = Returned("ok", NoId, smoke.elapsed)
  /\ UNCHANGED <<apiVars, webVars, otherVars>>

\* one export downloaded; the loop moves on, or the script completes.
ReturnDownloadExport ==
  /\ smoke.inflight /\ smoke.pc = "downloadExport"
  /\ smoke' = [smoke EXCEPT !.inflight = FALSE,
                            !.exIdx = @ + 1,
                            !.pc = IF smoke.exIdx + 1 > Len(smoke.exports)
                                     THEN "complete" ELSE "downloadExport"]
  /\ smokeLog' = Returned("ok", NoId, smoke.elapsed)
  /\ UNCHANGED <<apiVars, webVars, otherVars>>

SmokeNext ==
  \/ SmokeSend
  \/ SmokeHttpError
  \/ ReturnCheck
  \/ ReturnCreate
  \/ ReturnRun
  \/ ReturnPoll
  \/ SmokeSleep
  \/ ReturnListArtifacts
  \/ ReturnDownloadArtifact
  \/ ReturnListExports
  \/ ReturnDownloadExport

SmokeSpec == SmokeInit /\ [][SmokeNext]_vars

\* The script is one sequential process and every request returns: it always
\* takes its next step.
SmokeFairSpec == SmokeSpec /\ WF_vars(SmokeNext)

-----------------------------------------------------------------------------
(* Backend start scripts: scripts/dev_api.ps1 and its variant that starts   *)
(* uvicorn in a new window.                                                *)

DevScripts == {"dev_api", "dev_api_window"}

NoArg == "not given"
PortArgs == {NoArg, "8000"}
HostArgs == {NoArg, "0.0.0.0"}
ListenerPids == {"4711", "4712"}

\* [int]$Port = 18080 / 18083, rendered by "$Port"
DefaultPort(script) == IF script = "dev_api" THEN "18080" ELSE "18083"

\* [string]$BindHost = "127.0.0.1" / [string]$Host = "127.0.0.1"
DefaultHost(script) == "127.0.0.1"

\* The name of the host parameter: -BindHost, or -Host, which is also the
\* read-only automatic variable $Host.
HostParameter(script) == IF script = "dev_api" THEN "BindHost" ELSE "Host"

\* Whether the port is to be cleared: -KillExisting asks for it, -NoKill
\* declines it.
WantsKill(script, switch) == IF script = "dev_api" THEN switch ELSE ~switch

\* How binding the parameters can end. A value given for -Host cannot be
\* stored in the read-only $Host; without one the outcome depends on whether
\* the default is stored in it.
BindOutcomes(script, hostArg) ==
  IF HostParameter(script) = "Host"
    THEN IF hostArg # NoArg THEN {"readonly"} ELSE {"readonly", "bound"}
    ELSE {"bound"}

\* Mutant: the reload flag always passed.
ReloadArgs_always(script, reload) == <<"--reload">>

\* if ($Reload) { $uvicornArgs += @("--reload", "--reload-dir", ...) }
\* if ($Reload) { $argList += "--reload" }
ReloadArgs(script, reload) ==
  IF ~reload THEN <<>>
  ELSE IF script = "dev_api" THEN <<"--reload", "--reload-dir", "services/api/app">>
  ELSE <<"--reload">>

\* $uvicornArgs / $argList
UvicornArgs(script, host, port, reload) ==
  <<"-m", "uvicorn", "app.main:app", "--host", host, "--port", port,
    "--log-level", "info">> \o ReloadArgs(script, reload)

\* The pids the kill phase collects: Get-NetTCPConnection's, when the cmdlet
\* exists; the netstat fallback assigns $pid inside try/catch and adds none.
CollectedPids(d) == IF d.cmdlet THEN d.listeners ELSE {}

\* How the kill phase can end. Both scripts use $pid as the foreach variable,
\* which is the read-only $PID: in dev_api.ps1 the whole phase is inside
\* try/catch, in the variant the foreach statement is outside any try. In the
\* variant $pids.Count of no pid or of a single pid is read under
\* Set-StrictMode, which either yields a count or is a terminating error.
KillOutcomes(d) ==
  IF ~WantsKill(d.script, d.killSwitch)
    THEN {[pc |-> "launch", error |-> None]}
  ELSE IF d.script = "dev_api"
    THEN {[pc |-> "launch", error |-> None]}
  ELSE IF Cardinality(CollectedPids(d)) >= 2
    THEN {[pc |-> "failed", error |-> "pid-readonly"]}
  ELSE IF Cardinality(CollectedPids(d)) = 1
    THEN {[pc |-> "failed", error |-> "pid-readonly"],
          [pc |-> "failed", error |-> "strict"]}
  ELSE {[pc |-> "launch", error |-> None], [pc |-> "failed", error |-> "strict"]}

DevInit ==
  /\ \E sc \in DevScripts, pa \in PortArgs, ha \in HostArgs,
        rl \in BOOLEAN, ks \in BOOLEAN, ve \in BOOLEAN, cm \in BOOLEAN,
        ls \in SUBSET ListenerPids :
       dev = [pc |-> "bind", script |-> sc, portArg |-> pa, hostArg |-> ha,
              Reload |-> rl, killSwitch |-> ks, venv |-> ve, cmdlet |-> cm,
              listeners |-> ls, Port |-> NoArg, Host |-> NoArg,
              killed |-> {}, launched |-> FALSE, args |-> <<>>,
              error |-> None]
  /\ apiBase = FALSE
  /\ ApiIdle
  /\ WebIdle
  /\ SmokeIdle
  /\ BackendIdle
  /\ UploadIdle
  /\ FormIdle
  /\ LocationIdle

DevUnchanged ==
  UNCHANGED <<apiVars, webVars, smokeVars, backend, batches, form, location>>

\* param(...): the arguments, or the defaults, are bound.
DevBind ==
  /\ dev.pc = "bind"
  /\ \E o \in BindOutcomes(dev.script, dev.hostArg) :
       IF o = "bound"
         THEN dev' = [dev EXCEPT
                        !.pc = "venv",
                        !.Port = IF dev.portArg = NoArg THEN DefaultPort(dev.script)
                                 ELSE dev.portArg,
                        !.Host = IF dev.hostArg = NoArg THEN DefaultHost(dev.script)
                                 ELSE dev.hostArg]
         ELSE dev' = [dev EXCEPT !.pc = "failed", !.error = "host-readonly"]
  /\ DevUnchanged

\* if (!(Test-Path $py)) { throw ... }
DevCheckVenv ==
  /\ dev.pc = "venv"
  /\ dev' = IF dev.venv THEN [dev EXCEPT !.pc = "kill"]
            ELSE [dev EXCEPT !.pc = "failed", !.error = "venv"]
  /\ DevUnchanged

\* the kill phase; no Stop-Process is ever reached.
DevKill ==
  /\ dev.pc = "kill"
  /\ \E o \in KillOutcomes(dev) :
       dev' = [dev EXCEPT !.pc = o.pc, !.error = o.error]
  /\ DevUnchanged

\* & $py @uvicornArgs / Start-Process -FilePath $Py -ArgumentList $argList
DevLaunch ==
  /\ dev.pc = "launch"
  /\ dev' = [dev EXCEPT !.pc = "serving", !.launched = TRUE,
                        !.args = UvicornArgs(dev.script, dev.Host, dev.Port,
                                             dev.Reload)]
  /\ DevUnchanged

\* uvicorn exits (dev_api.ps1), or the health check is over (the variant).
DevFinish ==
  /\ dev.pc = "serving"
  /\ dev' = [dev EXCEPT !.pc = "done"]
  /\ DevUnchanged

DevNext == DevBind \/ DevCheckVenv \/ DevKill \/ DevLaunch \/ DevFinish

DevSpec == DevInit /\ [][DevNext]_vars

-----------------------------------------------------------------------------
(* The pipeline page and the exports page watched against a backend whose  *)
(* pipeline run and export make progress.                                  *)

\* Export.status
ExportStatuses == {"pending", "generating", "completed", "failed"}

\* The exports list of a workspace that has no export yet.
NoExports == "empty"

\* The workspace whose pages are watched, and its polled queries.
WatchedWorkspace == "w1"

WatchPages ==
  { [route |-> r, ws |-> WatchedWorkspace] : r \in {"pipeline", "exports"} }

WatchedKeys == {<<"pipeline", WatchedWorkspace>>, <<"exports", WatchedWorkspace>>}

\* The mutations whose effect on the backend is followed here.
WatchedHooks == {"useStartPipeline", "useCreateExport"}

\* What the backend answers to a query: the pipeline's status, the status of
\* the workspace's export, an opaque payload otherwise.
WatchData(k) ==
  IF k[1] = "pipeline" THEN backend.pipeline
  ELSE IF k[1] = "exports" THEN backend.export
  ELSE "data"

\* What a request that succeeded did at the backend.
AfterMutation(h, b) ==
  CASE h = "useStartPipeline" -> [b EXCEPT !.pipeline = "running"]
    [] h = "useCreateExport" -> [b EXCEPT !.export = "pending"]
    [] OTHER -> b

\* getStatusBadge(exportItem.status), and the Download button of a row.
ExportRow(status) ==
  [badge |-> CASE status = "completed" -> "Ready"
               [] status = "generating" -> "Generating"
               [] status = "failed" -> "Failed"
               [] OTHER -> "Pending",
   download |-> status = "completed"]

WatchInit ==
  /\ apiBase = TRUE
  /\ ApiIdle
  /\ page \in WatchPages
  /\ queries = [k \in ActiveKeys(page) |-> MountedQuery(k)]
  /\ mutations = [h \in PageHooks(page) |-> IdleMutation]
  /\ toasts = <<>>
  /\ SmokeIdle
  /\ DevIdle
  /\ UploadIdle
  /\ FormIdle
  /\ LocationIdle
  /\ \E p \in {"idle", "failed"} :
       backend = [pc |-> "live", pipeline |-> p, export |-> NoExports]

\* A fetch of query k resolves with what the backend holds now.
WatchResolve(k) ==
  /\ k \in DOMAIN queries
  /\ queries[k].fetching
  /\ CanResolve(QueryFn(k))
  /\ queries' = [queries EXCEPT ![k] = FetchResolved(k, @, WatchData(k))]
  /\ UNCHANGED <<page, mutations, toasts, apiVars, smokeVars, otherVars>>

WatchQueryResolve == \E k \in AllKeys : WatchResolve(k)

\* The user starts the pipeline or creates an export.
WatchMutate ==
  /\ Mutate
  /\ \A h \in DOMAIN mutations :
       (mutations[h].status # "pending" /\ mutations'[h].status = "pending")
         => h \in WatchedHooks

\* mutationFn resolved: the backend did what was asked; onSuccess
\* invalidates, then the handler continues.
WatchMutationResolve ==
  \E h \in DOMAIN mutations :
    /\ mutations[h].status = "pending"
    /\ CanResolve(MutationFn(h, mutations[h].vars))
    /\ backend' = AfterMutation(h, backend)
    /\ LET f == OnSuccessFilters(h, mutations[h].vars)
       IN  /\ mutations' = [mutations EXCEPT ![h].status = "success",
                                             ![h].filters = f,
                                             ![h].invalidated = Invalidated(f)]
           /\ queries' = RefetchInvalidated(queries, Invalidated(f))
    /\ toasts' = toasts \o SuccessToast(h)
    /\ UNCHANGED <<page, apiVars, smokeVars, dev, batches, form, location>>

\* The backend's own progress: a running pipeline ends, an export is
\* generated.
BackendAdvance ==
  /\ backend.pc = "live"
  /\ \/ /\ backend.pipeline = "running"
        /\ \E st \in {"completed", "failed"} :
             backend' = [backend EXCEPT !.pipeline = st]
     \/ /\ backend.export = "pending"
        /\ backend' = [backend EXCEPT !.export = "generating"]
     \/ /\ backend.export = "generating"
        /\ \E st \in {"completed", "failed"} :
             backend' = [backend EXCEPT !.export = st]
  /\ UNCHANGED <<apiVars, webVars, smokeVars, dev, batches, form, location>>

WatchNext ==
  \/ WatchQueryResolve
  \/ QueryReject
  \/ IntervalRefetch
  \/ RetryClick
  \/ WatchMutate
  \/ WatchMutationResolve
  \/ MutationReject
  \/ DismissToast
  \/ BackendAdvance

WatchSpec == WatchInit /\ [][WatchNext]_vars

\* Timers fire, the backend's work ends, and of the fetches of a query that
\* keeps being fetched one eventually succeeds. Nothing is assumed of the
\* user.
WatchFairSpec ==
  /\ WatchSpec
  /\ WF_vars(IntervalRefetch)
  /\ WF_vars(BackendAdvance)
  /\ \A k \in WatchedKeys : SF_vars(WatchResolve(k))

-----------------------------------------------------------------------------
(* The upload page: handleDrop and handleFileSelect, each a loop of awaited *)
(* uploads, sharing the one mutation observer of useUploadDocument.        *)

\* Bound on the drops and file selections of one visit of the page.
MaxBatches == 2

\* Bound on the files of one drop or selection.
MaxFiles == 2

FileNames == {"a.pdf", "b.md"}

\* Array.from(e.dataTransfer.files) / Array.from(e.target.files || [])
FileLists == UNION { [1..n -> FileNames] : n \in 0..MaxFiles }

UploadHook == "useUploadDocument"

UploadPages == { [route |-> "upload", ws |-> WatchedWorkspace] }

UploadVars(pg) == [ws |-> pg.ws, id |-> NoId]

\* The toast of one file: `${file.name} uploaded successfully` in the try
\* block, `Failed to upload ${file.name}` in the catch block.
UploadToast(file, outcome) ==
  IF outcome = "ok"
    THEN Toast("Success", file \o " uploaded successfully")
    ELSE ErrorToast("Failed to upload " \o file)

\* A handler from its call to its first await: the loop's first mutateAsync,
\* or the end of the handler for an empty list.
StartBatch(via, files) ==
  [via |-> via, files |-> files, outcomes |-> <<>>,
   uploading |-> IF files = <<>> THEN {} ELSE {1},
   pc |-> IF files = <<>> THEN "done" ELSE "await",
   observed |-> files # <<>>]

\* Mutant: the loop's try/catch around the whole loop, so that the first
\* failed upload ends the handler.
AfterSettle_stopsOnFailure(b, outcome) ==
  LET i == Len(b.outcomes) + 1
  IN  IF i < Len(b.files) /\ outcome = "ok"
        THEN [b EXCEPT !.outcomes = Append(@, outcome),
                       !.uploading = (@ \ {i}) \cup {i + 1},
                       !.observed = TRUE]
        ELSE [b EXCEPT !.outcomes = Append(@, outcome),
                       !.uploading = @ \ {i},
                       !.pc = "done"]

\* The handler from the settling of the awaited upload to its next await:
\* the toast of the try or the catch block, then the next iteration's
\* mutateAsync, or the end of the loop.
AfterSettle(b, outcome) ==
  LET i == Len(b.outcomes) + 1
  IN  IF i < Len(b.files)
        THEN [b EXCEPT !.outcomes = Append(@, outcome),
                       !.uploading = (@ \ {i}) \cup {i + 1},
                       !.observed = TRUE]
        ELSE [b EXCEPT !.outcomes = Append(@, outcome),
                       !.uploading = @ \ {i},
                       !.pc = "done"]

\* The observer follows the mutation of its latest mutate call only.
Unobserved(bs) == [j \in DOMAIN bs |-> [bs[j] EXCEPT !.observed = FALSE]]

\* <Button disabled={uploadDocument.isPending}> and the file input inside it.
SelectDisabled(ms) == ms[UploadHook].status = "pending"

PendingUpload(pg) ==
  [IdleMutation EXCEPT !.status = "pending", !.vars = UploadVars(pg)]

UploadInit ==
  /\ apiBase \in BOOLEAN
  /\ ApiIdle
  /\ DevIdle
  /\ BackendIdle
  /\ UploadIdle
  /\ FormIdle
  /\ LocationIdle
  /\ page \in UploadPages
  /\ queries = [k \in ActiveKeys(page) |-> MountedQuery(k)]
  /\ mutations = [h \in PageHooks(page) |-> IdleMutation]
  /\ toasts = <<>>
  /\ smoke = [pc |-> None]
  /\ smokeLog = <<>>

\* A handler is called with a list of files.
BeginBatch(via, files) ==
  /\ Len(batches) < MaxBatches
  /\ IF files = <<>>
       THEN /\ batches' = Append(batches, StartBatch(via, files))
            /\ UNCHANGED mutations
       ELSE /\ batches' = Append(Unobserved(batches), StartBatch(via, files))
            /\ mutations' = [mutations EXCEPT ![UploadHook] = PendingUpload(page)]
  /\ UNCHANGED <<page, queries, toasts, apiVars, smokeVars, dev, backend, form,
               location>>

\* onDrop of the drop zone: handleDrop.
Drop == \E files \in FileLists : BeginBatch("drop", files)

\* onChange of the file input: handleFileSelect.
SelectFiles ==
  /\ ~SelectDisabled(mutations)
  /\ \E files \in FileLists : BeginBatch("select", files)

\* The upload a handler awaits settles, and the handler runs to its next
\* await.
UploadSettle(j, outcome) ==
  /\ batches[j].pc = "await"
  /\ batches[j].uploading # {}
  /\ IF outcome = "ok"
       THEN CanResolve(MutationFn(UploadHook, UploadVars(page)))
       ELSE CanReject(MutationFn(UploadHook, UploadVars(page)))
  /\ LET b == batches[j]
         nb == AfterSettle(b, outcome)
         f == IF outcome = "ok"
                THEN OnSuccessFilters(UploadHook, UploadVars(page))
                ELSE OnErrorFilters(UploadHook, UploadVars(page))
         settled == [mutations[UploadHook] EXCEPT
                       !.status = IF outcome = "ok" THEN "success" ELSE "error",
                       !.failureCount = IF outcome = "ok" THEN 0 ELSE 1,
                       !.filters = f,
                       !.invalidated = Invalidated(f)]
     IN  /\ toasts' = Append(toasts, UploadToast(b.files[Len(b.outcomes) + 1], outcome))
         /\ queries' = RefetchInvalidated(queries, Invalidated(f))
         /\ IF nb.pc = "await"
              THEN /\ batches' = [Unobserved(batches) EXCEPT ![j] = nb]
                   /\ mutations' = [mutations EXCEPT ![UploadHook] = PendingUpload(page)]
              ELSE /\ batches' = [batches EXCEPT ![j] = nb]
                   /\ mutations' = IF b.observed
                                     THEN [mutations EXCEPT ![UploadHook] = settled]
                                     ELSE mutations
  /\ UNCHANGED <<page, apiVars, smokeVars, dev, backend, form, location>>

UploadResolve == \E j \in DOMAIN batches : UploadSettle(j, "ok")

UploadReject == \E j \in DOMAIN batches : UploadSettle(j, "failed")

UploadNext ==
  \/ Drop
  \/ SelectFiles
  \/ UploadResolve
  \/ UploadReject
  \/ QueryResolve
  \/ QueryReject
  \/ RetryClick

UploadSpec == UploadInit /\ [][UploadNext]_vars

-----------------------------------------------------------------------------
(* The create-workspace dialog of the list page and the new-interview form *)
(* of the interview page.                                                  *)

\* Bound on the characters typed into a required field.
MaxFieldLen == 2

\* The characters typed: whitespace and anything else.
Chars == {" ", "a"}

\* What a required field can hold.
FieldValues == UNION { [1..n -> Chars] : n \in 0..MaxFieldLen }

\* What an optional field holds in the model: nothing, or some text.
OptionalValues == {<<>>, <<"a">>}

FormPages ==
  {[route |-> "list", ws |-> NoId], [route |-> "interview", ws |-> WatchedWorkspace]}

\* useState({ name: '', description: '' }) /
\* useState({ title: '', participantName: '', participantRole: '' })
FormFields(pg) ==
  IF pg.route = "list"
    THEN {"name", "description"}
    ELSE {"title", "participantName", "participantRole"}

RequiredField(pg) == IF pg.route = "list" THEN "name" ELSE "title"

FormHook(pg) == IF pg.route = "list" THEN "useCreateWorkspace" ELSE "useCreateInterview"

EmptyFields(pg) == [f \in FormFields(pg) |-> <<>>]

\* String.prototype.trim: whitespace removed from both ends.
RECURSIVE TrimStart(_)
TrimStart(s) ==
  IF s # <<>> /\ Head(s) = " " THEN TrimStart(Tail(s)) ELSE s

RECURSIVE TrimEnd(_)
TrimEnd(s) ==
  IF s # <<>> /\ s[Len(s)] = " " THEN TrimEnd(SubSeq(s, 1, Len(s) - 1)) ELSE s

Trim(s) == TrimEnd(TrimStart(s))

\* Mutant: the required field tested without trim().
MissingRequired_noTrim(pg, fields) == fields[RequiredField(pg)] = <<>>

\* if (!newWorkspace.name.trim()) / if (!formData.title.trim())
MissingRequired(pg, fields) == Trim(fields[RequiredField(pg)]) = <<>>

RequiredToast(pg) ==
  ErrorToast(IF pg.route = "list"
               THEN "Workspace name is required"
               ELSE "Interview title is required")

\* Mutant: the success branch closing the dialog without resetting its fields.
FormAfter_keepsValues(pg, f, outcome) ==
  IF outcome = "ok" THEN [f EXCEPT !.open = FALSE] ELSE f

\* The handler after await mutateAsync: the try block closes and resets, the
\* catch block touches no state.
FormAfter(pg, f, outcome) ==
  IF outcome = "ok" THEN [open |-> FALSE, fields |-> EmptyFields(pg)] ELSE f

FormInit ==
  /\ apiBase \in BOOLEAN
  /\ ApiIdle
  /\ DevIdle
  /\ BackendIdle
  /\ UploadIdle
  /\ LocationIdle
  /\ page \in FormPages
  /\ queries = [k \in ActiveKeys(page) |-> MountedQuery(k)]
  /\ mutations = [h \in PageHooks(page) |-> IdleMutation]
  /\ toasts = <<>>
  /\ smoke = [pc |-> None]
  /\ smokeLog = <<>>
  /\ form = [open |-> FALSE, fields |-> EmptyFields(page)]

FormUnchanged ==
  UNCHANGED <<page, apiVars, smokeVars, dev, backend, batches, location>>

\* The New Workspace trigger / the New Interview button.
OpenForm ==
  /\ ~form.open
  /\ form' = [form EXCEPT !.open = TRUE]
  /\ UNCHANGED <<queries, mutations, toasts>>
  /\ FormUnchanged

\* The Cancel button (or the dialog's own close): only the visibility changes.
CancelForm ==
  /\ form.open
  /\ form' = [form EXCEPT !.open = FALSE]
  /\ UNCHANGED <<queries, mutations, toasts>>
  /\ FormUnchanged

\* onChange of an input of the open dialog / form.
EditField ==
  /\ form.open
  /\ \E f \in FormFields(page) :
       \E v \in (IF f = RequiredField(page) THEN FieldValues ELSE OptionalValues) :
         /\ v # form.fields[f]
         /\ form' = [form EXCEPT !.fields[f] = v]
  /\ UNCHANGED <<queries, mutations, toasts>>
  /\ FormUnchanged

\* handleCreateWorkspace / handleSubmit up to the return or the await.
SubmitForm ==
  /\ form.open
  /\ mutations[FormHook(page)].status # "pending"
  /\ Len(toasts) < MaxToasts
  /\ IF MissingRequired(page, form.fields)
       THEN /\ toasts' = Append(toasts, RequiredToast(page))
            /\ UNCHANGED mutations
       ELSE /\ mutations' = [mutations EXCEPT ![FormHook(page)] =
                               [IdleMutation EXCEPT
                                  !.status = "pending",
                                  !.vars = [ws |-> page.ws, id |-> NoId]]]
            /\ UNCHANGED toasts
  /\ UNCHANGED <<queries, form>>
  /\ FormUnchanged

\* mutateAsync settled: onSuccess invalidates, then the handler's try or catch
\* block runs.
FormSettle(outcome) ==
  LET h == FormHook(page)
      f == IF outcome = "ok"
             THEN OnSuccessFilters(h, mutations[h].vars)
             ELSE OnErrorFilters(h, mutations[h].vars)
  IN  /\ mutations[h].status = "pending"
      /\ IF outcome = "ok"
           THEN CanResolve(MutationFn(h, mutations[h].vars))
           ELSE CanReject(MutationFn(h, mutations[h].vars))
      /\ mutations' = [mutations EXCEPT
                         ![h].status = IF outcome = "ok" THEN "success" ELSE "error",
                         ![h].failureCount = IF outcome = "ok" THEN 0 ELSE 1,
                         ![h].filters = f,
                         ![h].invalidated = Invalidated(f)]
      /\ queries' = RefetchInvalidated(queries, Invalidated(f))
      /\ toasts' = toasts \o (IF outcome = "ok" THEN SuccessToast(h) ELSE FailureToast(h))
      /\ form' = FormAfter(page, form, outcome)
      /\ FormUnchanged

FormResolve == FormSettle("ok")

FormReject == FormSettle("failed")

FormNext ==
  \/ OpenForm
  \/ CancelForm
  \/ EditField
  \/ SubmitForm
  \/ FormResolve
  \/ FormReject
  \/ QueryResolve
  \/ QueryReject
  \/ DismissToast

FormSpec == FormInit /\ [][FormNext]_vars

-----------------------------------------------------------------------------
(* Routing: the workspace routes and WorkspaceLayout's tab strip. A         *)
(* pathname is a sequence of tokens: "/" and pieces of text without "/".    *)

\* Bound on the pieces a workspace id is made of.
MaxIdLen == 2

\* Pieces of an id (an id holds no "/").
IdTokens == {"w1", "s", "upload", "interview", "pipeline", "exports"}

WorkspaceIds == UNION { [1..n -> IdTokens] : n \in 1..MaxIdLen }

\* <Route path="/workspaces/:id..." element={...} /> and the list route.
WorkspaceRoutes == {"detail", "upload", "interview", "pipeline", "exports"}

\* The pathname each route matches for a workspace id.
RoutePath(route, id) ==
  CASE route = "list" -> <<"/", "workspaces">>
    [] route = "detail" -> <<"/", "workspaces", "/">> \o id
    [] route = "upload" -> <<"/", "workspaces", "/">> \o id \o <<"/", "upload">>
    [] route = "interview" ->
         <<"/", "workspaces", "/">> \o id \o <<"/", "interview", "/", "new">>
    [] route = "pipeline" -> <<"/", "workspaces", "/">> \o id \o <<"/", "pipeline">>
    [] route = "exports" -> <<"/", "workspaces", "/">> \o id \o <<"/", "exports">>

\* tabs: value and the route its href leads to.
Tabs == {"overview", "upload", "interview", "pipeline", "exports"}

TabRoute(tab) == IF tab = "overview" THEN "detail" ELSE tab

TabHref(tab, id) == RoutePath(TabRoute(tab), id)

\* String.prototype.includes
Includes(s, needle) ==
  \E i \in 1..(Len(s) - Len(needle) + 1) :
    SubSeq(s, i, i + Len(needle) - 1) = needle

\* getCurrentTab: the first of '/upload', '/interview', '/pipeline',
\* '/exports' the pathname includes, else overview.
getCurrentTab(path, id) ==
  CASE Includes(path, <<"/", "upload">>) -> "upload"
    [] ~Includes(path, <<"/", "upload">>) /\ Includes(path, <<"/", "interview">>) ->
         "interview"
    [] ~Includes(path, <<"/", "upload">>) /\ ~Includes(path, <<"/", "interview">>)
         /\ Includes(path, <<"/", "pipeline">>) -> "pipeline"
    [] ~Includes(path, <<"/", "upload">>) /\ ~Includes(path, <<"/", "interview">>)
         /\ ~Includes(path, <<"/", "pipeline">>)
         /\ Includes(path, <<"/", "exports">>) -> "exports"
    [] OTHER -> "overview"

\* The router's match and what the matched page renders: <Tabs value=...>
\* inside WorkspaceLayout, no tab strip on the list page.
Rendered(route, id) ==
  [pathname |-> RoutePath(route, id), route |-> route, id |-> id,
   tab |-> IF route = "list" THEN None ELSE getCurrentTab(RoutePath(route, id), id)]

NavInit ==
  /\ apiBase = FALSE
  /\ ApiIdle
  /\ WebIdle
  /\ SmokeIdle
  /\ DevIdle
  /\ BackendIdle
  /\ UploadIdle
  /\ FormIdle
  /\ location = Rendered("list", <<>>)

NavUnchanged ==
  UNCHANGED <<apiVars, webVars, smokeVars, dev, backend, batches, form>>

\* A workspace card of the list page: <Link to={`/workspaces/${id}`}>.
OpenWorkspace ==
  /\ location.route = "list"
  /\ \E id \in WorkspaceIds : location' = Rendered("detail", id)
  /\ NavUnchanged

\* A tab of the strip: <Link to={href}>.
TabClick ==
  /\ location.route \in WorkspaceRoutes
  /\ \E t \in Tabs :
       /\ TabRoute(t) # location.route
       /\ location' = Rendered(TabRoute(t), location.id)
  /\ NavUnchanged

\* AppLayout's back link: backHref="/workspaces".
BackToList ==
  /\ location.route \in WorkspaceRoutes
  /\ location' = Rendered("list", <<>>)
  /\ NavUnchanged

NavNext == OpenWorkspace \/ TabClick \/ BackToList

NavSpec == NavInit /\ [][NavNext]_vars

-----------------------------------------------------------------------------
(* The workspace detail page, left for the list page and visited again:    *)
(* the query cache outlives the page, and a query observed again refetches *)
(* with its cached data still in place.                                    *)

\* documents.data / interviews.data as the backend can list them.
ListData == {"[]", "[a, b]"}

\* Array.prototype.length
ListLength(data) ==
  CASE data = "[]" -> 0
    [] data = "[a, b]" -> 2

DetailPages ==
  {[route |-> "list", ws |-> NoId], [route |-> "detail", ws |-> WatchedWorkspace]}

\* What each query's fetch can resolve with.
DetailData(k) ==
  CASE k[1] \in {"documents", "interviews"} -> ListData
    [] k[1] = "pipeline" -> PipelineStatuses
    [] OTHER -> {"data"}

\* documents?.data?.length || 0
CountOf(q) == IF q.data = None THEN 0 ELSE ListLength(q.data)

\* pipeline?.data?.status || 'idle'
StatusOf(q) == IF q.data = None THEN "idle" ELSE q.data

\* Mutant: the Export Reports step left open until something else completes
\* it.
StepsCompleted_exportOpen(documentCount, interviewCount, pipelineStatus) ==
  <<documentCount > 0, interviewCount > 0, pipelineStatus = "completed", FALSE>>

\* steps[].completed, in the order of the steps array.
StepsCompleted(documentCount, interviewCount, pipelineStatus) ==
  <<documentCount > 0, interviewCount > 0, pipelineStatus = "completed",
    pipelineStatus = "completed">>

\* steps.filter((s) => s.completed).length
CountTrue(flags) == Cardinality({ i \in 1..Len(flags) : flags[i] })

\* What WorkspaceDetailPage renders: the loading state, the error state of
\* the workspace query, or the progress card and the steps.
DetailView(pg, qs) ==
  LET w == qs[<<"workspaces", pg.ws>>]
      steps == StepsCompleted(CountOf(qs[<<"documents", pg.ws>>]),
                              CountOf(qs[<<"interviews", pg.ws>>]),
                              StatusOf(qs[<<"pipeline", pg.ws>>]))
  IN  IF w.status = "pending" /\ w.fetching
        THEN [view |-> "loading"]
        ELSE IF w.status = "error"
          THEN [view |-> "error"]
          ELSE [view |-> "steps",
                completed |-> steps,
                completedSteps |-> CountTrue(steps),
                overallProgress |-> (CountTrue(steps) * 100) \div Len(steps)]

DetailInit ==
  /\ apiBase = TRUE
  /\ ApiIdle
  /\ OtherIdle
  /\ page = [route |-> "detail", ws |-> WatchedWorkspace]
  /\ queries = [k \in ActiveKeys(page) |-> MountedQuery(k)]
  /\ mutations = [h \in PageHooks(page) |-> IdleMutation]
  /\ toasts = <<>>
  /\ smoke = [pc |-> None]
  /\ smokeLog = <<>>

\* A query observed (again): built if the cache has none, left alone while
\* its fetch is under way, refetched otherwise.
Observe(k, qs) ==
  IF k \notin DOMAIN qs
    THEN MountedQuery(k)
    ELSE IF qs[k].fetching THEN qs[k] ELSE StartFetch(k, qs[k])

\* The back link of the detail page, or a workspace card of the list page.
Navigate ==
  \E pg \in DetailPages \ {page} :
    /\ page' = pg
    /\ queries' = [k \in (DOMAIN queries) \cup ActiveKeys(pg) |->
                     IF k \in ActiveKeys(pg) THEN Observe(k, queries) ELSE queries[k]]
    /\ mutations' = [h \in PageHooks(pg) |-> IdleMutation]
    /\ UNCHANGED <<toasts, apiVars, smokeVars, otherVars>>

\* A fetch resolves with what the backend holds now.
DetailResolve ==
  \E k \in DOMAIN queries :
    /\ queries[k].fetching
    /\ CanResolve(QueryFn(k))
    /\ \E d \in DetailData(k) :
         queries' = [queries EXCEPT ![k] = FetchResolved(k, @, d)]
    /\ UNCHANGED <<page, mutations, toasts, apiVars, smokeVars, otherVars>>

\* The interval timer of a query the page observes fires.
DetailIntervalRefetch ==
  /\ IntervalRefetch
  /\ \A k \in (DOMAIN queries) \ ActiveKeys(page) : queries'[k] = queries[k]

DetailNext ==
  \/ Navigate
  \/ DetailResolve
  \/ QueryReject
  \/ DetailIntervalRefetch
  \/ RetryClick

DetailSpec == DetailInit /\ [][DetailNext]_vars

-----------------------------------------------------------------------------
(* Properties of the web application.                                      *)

PipelineKeys == { k \in DOMAIN queries : k[1] = "pipeline" }

\* C1: an interval refetch of ['pipeline', workspaceId] is scheduled, every
\* 5000 ms, exactly while the most recently cached pipeline status is
\* running; with idle, completed, failed or no cached data none is scheduled,
\* and no other query polls.
C1_PollsWhileRunning ==
  \A k \in DOMAIN queries :
    /\ queries[k].interval \in {0, 5000}
    /\ queries[k].interval = 5000 <=> (k \in PipelineKeys /\ queries[k].data = "running")
    /\ (k \in PipelineKeys /\ queries[k].data \in {None, "idle", "completed", "failed"})
         => queries[k].interval = 0

\* C1 witness: a poll failed (both attempts) while the cache still says
\* running, and the interval stays scheduled.
C1_Witness ==
  \E k \in PipelineKeys :
    /\ queries[k].data = "running"
    /\ queries[k].status = "error"
    /\ ~queries[k].fetching
    /\ queries[k].interval = 5000

ToastIndexes == 1..Len(toasts)

MutationFailureTexts ==
  {"Failed to create workspace", "Failed to upload", "Failed to delete document",
   "Failed to create interview", "Failed to start pipeline",
   "Failed to cancel pipeline", "Failed to create export",
   "Failed to download export"}

QueryErrorShown ==
  /\ page.route \notin {None, "other"}
  /\ queries[PrimaryKey(page)].status = "error"

C3_SurfacesInv ==
  /\ QueryErrorShown
       => /\ ErrorState(page, queries).shown
          /\ ErrorState(page, queries).onRetry = "refetch"
  /\ \A i \in ToastIndexes :
       toasts[i].variant = "destructive"
         => /\ toasts[i].action = None
            /\ toasts[i].description \in MutationFailureTexts

\* A step in which a page's mutation fails adds that handler's destructive
\* toast; a step in which a query fails adds no toast.
C3_SurfacesStep ==
  /\ \A h \in DOMAIN mutations :
       (mutations[h].status = "pending" /\ mutations'[h].status = "error"
          /\ page.route # "other")
         => /\ Len(toasts') = Len(toasts) + 1
            /\ toasts'[Len(toasts')].variant = "destructive"
            /\ toasts'[Len(toasts')].action = None
  /\ (\E k \in DOMAIN queries :
        queries[k].status # "error" /\ queries'[k].status = "error")
       => toasts' = toasts

C4_BoundedRetries ==
  /\ \A k \in DOMAIN queries :
       /\ queries[k].failureCount <= 2
       /\ queries[k].fetching => queries[k].failureCount <= 1
       /\ (queries[k].status = "error" /\ ~queries[k].fetching)
            => queries[k].failureCount = 2
  /\ \A h \in DOMAIN mutations :
       /\ mutations[h].failureCount <= 1
       /\ mutations[h].status = "pending" => mutations[h].failureCount = 0
       /\ mutations[h].status = "error" => mutations[h].failureCount = 1

\* C4 witness: a query in its error state next to a failed mutation.
C4_Witness ==
  /\ \E k \in DOMAIN queries :
       queries[k].status = "error" /\ ~queries[k].fetching
  /\ \E h \in DOMAIN mutations : mutations[h].status = "error"

\* The keys each mutation is to invalidate.
ExpectedInvalidation(h, v) ==
  CASE h = "useUploadDocument" -> {<<"documents", v.ws>>, <<"workspaces", v.ws>>}
    [] h = "useDeleteDocument" -> {<<"documents", v.ws>>, <<"workspaces", v.ws>>}
    [] h = "useCreateInterview" -> {<<"interviews", v.ws>>, <<"workspaces", v.ws>>}
    [] h = "useStartPipeline" -> {<<"pipeline", v.ws>>}
    [] h = "useCancelPipeline" -> {<<"pipeline", v.ws>>}
    [] h = "useCreateExport" -> {<<"exports", v.ws>>}
    [] h = "useCreateWorkspace" -> {<<"workspaces">>}
    [] h = "useDeleteWorkspace" -> {<<"workspaces">>}
    [] h = "useUpdateWorkspace" -> {<<"workspaces">>, <<"workspaces", v.ws>>}
    [] h = "useSubmitInterviewResponses" ->
         {<<"interviews", v.ws, v.id>>, <<"interviews", v.ws>>}
    [] OTHER -> {}

FiltersOf(h) == { mutations[h].filters[i] : i \in 1..Len(mutations[h].filters) }

\* C5: once a mutation has succeeded, the keys of its resource were passed
\* to invalidateQueries and the cache entries under them are invalidated.
C5_SuccessInvalidates ==
  \A h \in DOMAIN mutations :
    mutations[h].status = "success"
      => /\ ExpectedInvalidation(h, mutations[h].vars) \subseteq FiltersOf(h)
         /\ ExpectedInvalidation(h, mutations[h].vars) \subseteq mutations[h].invalidated

\* C5 witness: an upload to the second workspace succeeded.
C5_Witness ==
  /\ "useUploadDocument" \in DOMAIN mutations
  /\ mutations["useUploadDocument"].status = "success"
  /\ mutations["useUploadDocument"].vars.ws = "w2"

WorkspaceScopedHooks ==
  {"useUploadDocument", "useDeleteDocument", "useCreateInterview",
   "useSubmitInterviewResponses", "useStartPipeline", "useCancelPipeline",
   "useCreateExport", "useDownloadExport"}

\* C6: a failed mutation invalidates nothing, and a document, interview,
\* pipeline or export mutation on workspace W invalidates only entries keyed
\* by W.
C6_InvalidationFrame ==
  \A h \in DOMAIN mutations :
    /\ mutations[h].status = "error"
         => mutations[h].invalidated = {} /\ mutations[h].filters = <<>>
    /\ h \in WorkspaceScopedHooks
         => \A k \in mutations[h].invalidated :
              Len(k) >= 2 /\ k[2] = mutations[h].vars.ws

\* C6 witness: on the upload page of w1 one mutation failed and the other
\* succeeded and invalidated entries.
C6_Witness ==
  /\ page = [route |-> "upload", ws |-> "w1"]
  /\ mutations["useUploadDocument"].status = "error"
  /\ mutations["useDeleteDocument"].status = "success"
  /\ mutations["useDeleteDocument"].invalidated # {}

OnPipelinePage == page.route = "pipeline"

PipelineShown == PipelineStatusShown(page, queries)

\* C15: with the status completed the pipeline page offers 'Re-run
\* Pipeline', and the user can activate it to start the pipeline again.
C15_RerunAfterCompleted ==
  (OnPipelinePage /\ PipelineShown = "completed"
     /\ mutations["useStartPipeline"].status # "pending"
     /\ Len(toasts) < MaxToasts)
    => /\ PipelineControl(page, queries, mutations).label = "Re-run Pipeline"
       /\ CanMutate(page, queries, mutations, "useStartPipeline")

C16_ControlsInv ==
  OnPipelinePage =>
    /\ PipelineControl(page, queries, mutations).control \in {"start", "cancel"}
    /\ CanMutate(page, queries, mutations, "useCancelPipeline")
         => /\ PipelineShown = "running"
            /\ mutations["useCancelPipeline"].status # "pending"
    /\ CanMutate(page, queries, mutations, "useStartPipeline")
         => /\ PipelineShown # "running"
            /\ mutations["useStartPipeline"].status # "pending"
    /\ (PipelineShown = "failed" /\ mutations["useStartPipeline"].status # "pending")
         => CanMutate(page, queries, mutations, "useStartPipeline")

\* A step that dispatches a cancel or a start from the pipeline page.
C16_DispatchStep ==
  OnPipelinePage =>
    /\ (mutations["useCancelPipeline"].status # "pending"
          /\ mutations'["useCancelPipeline"].status = "pending")
         => PipelineShown = "running"
    /\ (mutations["useStartPipeline"].status # "pending"
          /\ mutations'["useStartPipeline"].status = "pending")
         => PipelineShown # "running"

\* C16: from the pipeline page a cancel is dispatched only while the last
\* fetched status is running and no cancel is in flight, a start only while
\* it is not running and no start is in flight; one of the two controls is
\* shown in every state, and start is available again after failed.
C16_PipelineControls == [](C16_ControlsInv) /\ [][C16_DispatchStep]_vars

\* C16 witness: a start was dispatched from a failed pipeline.
C16_Witness ==
  /\ OnPipelinePage
  /\ PipelineShown = "failed"
  /\ mutations["useStartPipeline"].status = "pending"

WatchedPipeline == queries[<<"pipeline", page.ws>>]

C17_PollingInv ==
  OnPipelinePage =>
    /\ WatchedPipeline.data = "running" => WatchedPipeline.interval = PollIntervalMs
    /\ WatchedPipeline.data \in {"completed", "failed"}
         => WatchedPipeline.interval = 0

C17_RunningReported ==
  /\ OnPipelinePage
  /\ mutations["useStartPipeline"].status = "success"
  /\ WatchedPipeline.data = "running"

C17_FinalShown ==
  /\ OnPipelinePage
  /\ WatchedPipeline.data \in {"completed", "failed"}
  /\ WatchedPipeline.status = "success"
  /\ WatchedPipeline.interval = 0

\* C17: once a start succeeded and the page got the status running, the page
\* comes to show the final status (completed or failed) with no user action,
\* and then schedules no interval poll; while the cached status is running
\* the interval stays scheduled, also after a poll that failed.
C17_PollsUntilFinal ==
  /\ [](C17_PollingInv)
  /\ C17_RunningReported ~> C17_FinalShown

\* C17 witness: the final status is shown after a started run.
C17_Witness ==
  /\ C17_FinalShown
  /\ mutations["useStartPipeline"].status = "success"
  /\ backend.pipeline = WatchedPipeline.data

OnExportsPage == page.route = "exports"

WatchedExports == queries[<<"exports", page.ws>>]

\* C20: after a create-export succeeded and the backend completed the
\* export, the exports page comes to show it Ready with Download, with no
\* user action.
C20_ExportBecomesReady ==
  (/\ OnExportsPage
   /\ mutations["useCreateExport"].status = "success"
   /\ backend.export = "completed")
    ~> (/\ OnExportsPage
        /\ ExportRow(WatchedExports.data).badge = "Ready"
        /\ ExportRow(WatchedExports.data).download)

-----------------------------------------------------------------------------
(* Properties of the upload page.                                          *)

\* The upload requests awaiting their answer: handler and file index.
UploadsInFlight ==
  { p \in (DOMAIN batches) \X (1..(MaxFiles + 1)) : p[2] \in batches[p[1]].uploading }

\* C18: while an upload started from the upload page is pending the page
\* starts no further upload, by file selection or by drag-and-drop: at most
\* one upload request is in flight at any time.
C18_OneUploadInFlight == Cardinality(UploadsInFlight) <= 1

RECURSIVE SettledUpTo(_)
SettledUpTo(j) ==
  IF j = 0 THEN 0 ELSE Len(batches[j].outcomes) + SettledUpTo(j - 1)

\* Within one batch: at most one upload in flight, the one of the file after
\* the files already settled; the handler ends only with every file settled.
C19_BatchInv ==
  \A j \in DOMAIN batches :
    LET b == batches[j]
    IN  /\ Cardinality(b.uploading) <= 1
        /\ Len(b.outcomes) <= Len(b.files)
        /\ b.pc = "await" => b.uploading = {Len(b.outcomes) + 1}
        /\ b.pc = "done" => /\ b.uploading = {}
                            /\ Len(b.outcomes) = Len(b.files)

\* A step settles at most one more file of a batch, and shows exactly that
\* file's toast, success or error by the outcome; no other step shows one.
C19_ToastStep ==
  /\ \A j \in DOMAIN batches :
       LET b == batches[j]
           nb == batches'[j]
           i == Len(b.outcomes) + 1
       IN  /\ nb.files = b.files
           /\ \/ nb.outcomes = b.outcomes
              \/ /\ i <= Len(b.files)
                 /\ Len(nb.outcomes) = i
                 /\ SubSeq(nb.outcomes, 1, i - 1) = b.outcomes
                 /\ toasts' = Append(toasts, UploadToast(b.files[i], nb.outcomes[i]))
                 /\ toasts'[Len(toasts')].variant =
                      IF nb.outcomes[i] = "ok" THEN "default" ELSE "destructive"
  /\ (\A j \in DOMAIN batches : batches'[j].outcomes = batches[j].outcomes)
       => toasts' = toasts

\* C19: the files of a batch dropped or selected on the upload page are
\* uploaded one at a time in list order, each upload starting only after the
\* previous one settled; a failed upload does not stop the remaining files,
\* and exactly one toast per file is shown, success or error according to
\* that file's outcome.
C19_BatchSequential ==
  /\ [](C19_BatchInv /\ Len(toasts) = SettledUpTo(Len(batches)))
  /\ [][C19_ToastStep]_vars

\* C19 witness: a batch of two files has ended, its first upload failed and
\* its second succeeded, and both toasts were shown.
C19_Witness ==
  \E j \in DOMAIN batches :
    /\ batches[j].pc = "done"
    /\ Len(batches[j].files) = 2
    /\ batches[j].outcomes = <<"failed", "ok">>
    /\ \E m, n \in 1..Len(toasts) :
         /\ m < n
         /\ toasts[m] = UploadToast(batches[j].files[1], "failed")
         /\ toasts[n] = UploadToast(batches[j].files[2], "ok")

-----------------------------------------------------------------------------
(* Properties of the create-workspace dialog and the new-interview form.   *)

\* Empty or made of whitespace only.
Blank(s) == \A i \in 1..Len(s) : s[i] = " "

RequestStarts(h) ==
  /\ mutations[h].status # "pending"
  /\ mutations'[h].status = "pending"

\* C21: submitting the create-workspace dialog with an empty or
\* whitespace-only name, or the interview form with an empty or
\* whitespace-only title, issues no request, shows the required-field error
\* toast, and leaves the dialog's / form's visibility and the entered values
\* unchanged.
C21_BlankSubmitStep ==
  Blank(form.fields[RequiredField(page)]) =>
    /\ ~RequestStarts(FormHook(page))
    /\ SubmitForm =>
         /\ toasts' = Append(toasts, RequiredToast(page))
         /\ toasts'[Len(toasts')].variant = "destructive"
         /\ mutations' = mutations
         /\ form' = form

C21_BlankSubmitRejected == [][C21_BlankSubmitStep]_vars

\* C21 witness: the required-field toast is on screen, the dialog / form is
\* still open with its whitespace-only value, and nothing was requested.
C21_Witness ==
  /\ form.open
  /\ form.fields[RequiredField(page)] = <<" ", " ">>
  /\ \E i \in 1..Len(toasts) : toasts[i] = RequiredToast(page)
  /\ mutations[FormHook(page)].status = "idle"

\* C22: a failed create-workspace or create-interview request leaves the
\* dialog / form as it is (open if it was open, every entered value kept) and
\* only adds the error toast; a successful one closes the dialog / form and
\* resets every field to empty.
C22_SettleStep ==
  LET h == FormHook(page)
  IN  mutations[h].status = "pending" =>
        /\ mutations'[h].status = "error" =>
             /\ form' = form
             /\ toasts' = toasts \o FailureToast(h)
             /\ queries' = queries
        /\ mutations'[h].status = "success" =>
             /\ ~form'.open
             /\ \A f \in FormFields(page) : form'.fields[f] = <<>>
             /\ toasts' = toasts \o SuccessToast(h)

C22_FormAfterRequest == [][C22_SettleStep]_vars

\* C22 witness: the request failed, and the form is still open with the
\* value that was submitted.
C22_Witness ==
  /\ mutations[FormHook(page)].status = "error"
  /\ form.open
  /\ form.fields[RequiredField(page)] = <<"a", " ">>
  /\ \E i \in 1..Len(toasts) : <<toasts[i]>> = FailureToast(FormHook(page))

-----------------------------------------------------------------------------
(* Properties of the tab strip.                                            *)

\* C23: for every route of the application and every workspace id,
\* getCurrentTab returns the tab whose href equals the current pathname
\* (overview for /workspaces/{id}; upload, interview, pipeline, exports for
\* the sub-routes), so exactly the tab of the page being shown is active.
C23_ActiveTabIsShownPage ==
  location.route \in WorkspaceRoutes =>
    /\ TabHref(location.tab, location.id) = location.pathname
    /\ TabRoute(location.tab) = location.route

-----------------------------------------------------------------------------
(* Properties of the workspace detail page.                                *)

OnDetailSteps ==
  /\ page.route = "detail"
  /\ DetailView(page, queries).view = "steps"

DetailQuery(res) == queries[<<res, page.ws>>]

Indicator(b) == IF b THEN 1 ELSE 0

\* What the steps are computed from: the cached data of each query.
CachedCount(res) ==
  IF DetailQuery(res).data = None THEN 0 ELSE ListLength(DetailQuery(res).data)

CachedCompleted ==
  DetailQuery("pipeline").data # None /\ DetailQuery("pipeline").data = "completed"

\* The number of completed steps is [documents > 0] + [interviews > 0] +
\* 2 * [pipeline completed]; Export Reports is completed exactly when Run
\* Analysis is; progress is completedSteps/4*100, 100 only with all three.
C24_StepsFormula ==
  OnDetailSteps =>
    LET v == DetailView(page, queries)
    IN  /\ v.completedSteps =
             Indicator(CachedCount("documents") > 0)
             + Indicator(CachedCount("interviews") > 0)
             + 2 * Indicator(CachedCompleted)
        /\ v.completed[4] <=> v.completed[3]
        /\ v.overallProgress * 4 = v.completedSteps * 100
        /\ v.overallProgress = 100 <=>
             /\ CachedCount("documents") > 0
             /\ CachedCount("interviews") > 0
             /\ CachedCompleted

\* A query that has not loaded or has failed counts as 0 / idle.
C24_UnloadedOrFailedCountsNothing ==
  OnDetailSteps =>
    LET v == DetailView(page, queries)
    IN  /\ DetailQuery("documents").status \in {"pending", "error"} => ~v.completed[1]
        /\ DetailQuery("interviews").status \in {"pending", "error"} => ~v.completed[2]
        /\ DetailQuery("pipeline").status \in {"pending", "error"} =>
             /\ ~v.completed[3]
             /\ ~v.completed[4]

\* C24: on the workspace detail page the number of completed steps always
\* equals [documents > 0] + [interviews > 0] + 2 * [pipeline status =
\* completed], the Export Reports step is completed exactly when Run Analysis
\* is, overall progress is completedSteps/4*100 and is 100 only when all
\* three conditions hold, and a documents, interviews or pipeline query that
\* has not loaded or has failed counts as 0 / idle.
C24_StepsAsClaimed == C24_StepsFormula /\ C24_UnloadedOrFailedCountsNothing

\* C24 as the page computes it: the formula over the cached data; a query
\* without cached data (never loaded, or failed before it ever loaded) counts
\* as 0 / idle, and a query whose refetch failed counts with the data it
\* still caches.
C24_StepsFromCache ==
  /\ C24_StepsFormula
  /\ OnDetailSteps =>
       LET v == DetailView(page, queries)
       IN  /\ DetailQuery("documents").data = None => ~v.completed[1]
           /\ DetailQuery("interviews").data = None => ~v.completed[2]
           /\ DetailQuery("pipeline").data = None =>
                ~v.completed[3] /\ ~v.completed[4]
           /\ \A res \in {"documents", "interviews"} :
                (DetailQuery(res).status = "error" /\ DetailQuery(res).data # None)
                  => (v.completed[IF res = "documents" THEN 1 ELSE 2]
                        <=> ListLength(DetailQuery(res).data) > 0)
           /\ (DetailQuery("pipeline").status = "error"
                 /\ DetailQuery("pipeline").data # None)
                => (v.completed[3] <=> DetailQuery("pipeline").data = "completed")

\* C24 witness: the documents refetch failed on the second visit, the cached
\* list still counts, and all four steps are completed.
C24_Witness ==
  /\ OnDetailSteps
  /\ DetailQuery("documents").status = "error"
  /\ DetailQuery("documents").data = "[a, b]"
  /\ DetailQuery("interviews").data = "[a, b]"
  /\ DetailQuery("pipeline").data = "completed"
  /\ DetailView(page, queries).completedSteps = 4
  /\ DetailView(page, queries).overallProgress = 100

-----------------------------------------------------------------------------
(* Properties of the REST client.                                          *)

ApiFailed == apiOutcome.result.kind \notin {None, "pending", "resolved"}

ServerSentCode ==
  apiNet.net = "response" /\ apiNet.body = "object" /\ apiNet.code # NoCode

\* C2: every failure of a REST-client call reaches the caller as an ApiError
\* that carries a message, the HTTP status of the response and, when the
\* server sent one, the code.
C2_EveryFailureIsApiError ==
  ApiFailed =>
    /\ apiOutcome.result.kind = "ApiError"
    /\ apiOutcome.result.message # NoMessage
    /\ (apiOutcome.sent /\ apiNet.net = "response")
         => apiOutcome.result.status = apiNet.status
    /\ (ServerSentCode => apiOutcome.result.code = apiNet.code)

ApiSettled == apiOutcome.result.kind \notin {None, "pending"}

\* The call went through request().
UsesRequest ==
  apiCall.fn \notin {None, "documentsApi.upload", "exportsApi.download"}

JsonResponse == apiNet.net = "response" /\ apiNet.json

\* C12: request() resolves exactly when the base URL is configured, fetch
\* resolved, the content type is JSON and the status is ok; a non-ok JSON
\* response rejects with the body's message (or 'An error occurred'), the
\* status and the code; a response without a JSON content type rejects with
\* an ApiError of that response's status.
C12_RequestOutcome ==
  (UsesRequest /\ ApiSettled) =>
    /\ apiOutcome.result.kind = "resolved"
         <=> (apiBase /\ JsonResponse /\ ResponseOk(apiNet))
    /\ (apiBase /\ JsonResponse /\ ~ResponseOk(apiNet))
         => apiOutcome.result =
              ApiError(IF apiNet.message # NoMessage THEN apiNet.message
                       ELSE "An error occurred",
                       apiNet.status, apiNet.code)
    /\ (apiBase /\ apiNet.net = "response" /\ ~apiNet.json)
         => /\ apiOutcome.result.kind = "ApiError"
            /\ apiOutcome.result.status = apiNet.status

\* C13: with no base URL configured every call, JSON, multipart or download,
\* rejects with the 'API not configured' ApiError of status 0 and sends no
\* request.
C13_UnconfiguredRejects ==
  (~apiBase /\ ApiSettled) =>
    /\ ~apiOutcome.sent
    /\ apiOutcome.result =
         ApiError("API not configured. Set VITE_API_BASE_URL environment variable.",
                  0, NoCode)

-----------------------------------------------------------------------------
(* Properties of the smoke script.                                         *)

StepRank(step) ==
  CASE step = "check" -> 0
    [] step = "create" -> 1
    [] step = "run" -> 2
    [] step = "poll" -> 3
    [] step = "listArtifacts" -> 4
    [] step = "downloadArtifact" -> 5
    [] step = "listExports" -> 6
    [] step = "downloadExport" -> 7

LogSteps == { smokeLog[i].step : i \in 1..Len(smokeLog) }
PollIndexes == { i \in 1..Len(smokeLog) : smokeLog[i].step = "poll" }

\* The id the backend returned to the create-workspace request.
CreatedId ==
  LET c == { i \in 1..Len(smokeLog) : smokeLog[i].step = "create" }
  IN  IF c = {} THEN NoId ELSE smokeLog[CHOOSE i \in c : TRUE].reply

\* C7: the script's requests follow the order check, create, run, poll,
\* list artifacts, download artifact, list exports, download exports; a
\* request starts only after the previous one returned; and start-run and
\* every later request address the workspace id the create step returned.
C7_SmokeOrder ==
  /\ \A i \in 1..Len(smokeLog) - 1 :
       /\ smokeLog[i].outcome # "pending"
       /\ StepRank(smokeLog[i].step) <= StepRank(smokeLog[i + 1].step)
       /\ StepRank(smokeLog[i].step) = StepRank(smokeLog[i + 1].step)
            => smokeLog[i].step \in {"poll", "downloadExport"}
  /\ \A i \in 1..Len(smokeLog) :
       LET r == StepRank(smokeLog[i].step)
       IN  /\ r >= 1 => "check" \in LogSteps
           /\ r >= 2 => "create" \in LogSteps
           /\ r >= 3 => "run" \in LogSteps
           /\ r >= 4 => "poll" \in LogSteps
           /\ r >= 5 => "listArtifacts" \in LogSteps
           /\ r >= 7 => "listExports" \in LogSteps
           /\ r >= 2 => /\ Len(smokeLog[i].request.path) >= 2
                        /\ smokeLog[i].request.path[2] = CreatedId
                        /\ CreatedId \in Workspaces

\* C7 witness: the export downloads were reached, for the second workspace.
C7_Witness ==
  /\ smoke.pc = "complete"
  /\ "downloadArtifact" \in LogSteps
  /\ "downloadExport" \in LogSteps
  /\ CreatedId = "w2"

AfterLoopSteps ==
  {"listArtifacts", "downloadArtifact", "listExports", "downloadExport"}

\* The loop was left by its break.
LeftLoopByBreak ==
  \/ smoke.pc \in AfterLoopSteps \cup {"complete"}
  \/ smoke.pc = "failed" /\ smoke.error = "status"
  \/ smoke.pc = "failed" /\ LogSteps \cap AfterLoopSteps # {}

C8_PollLoopInv ==
  /\ LeftLoopByBreak => smoke.runStatus \in {"succeeded", "failed", "cancelled"}
  /\ (smoke.pc = "failed" /\ smoke.error = "timeout")
       => /\ smoke.runStatus \notin {"succeeded", "failed", "cancelled"}
          /\ smoke.elapsed > smoke.TimeoutSeconds
  /\ smoke.pc = "sleep"
       => /\ smoke.runStatus \notin {"succeeded", "failed", "cancelled"}
          /\ smoke.elapsed <= smoke.TimeoutSeconds
  /\ (LeftLoopByBreak \/ (smoke.pc = "failed" /\ smoke.error = "timeout"))
       => PollIndexes # {}
  /\ \A i \in PollIndexes :
       (i + 1) \in PollIndexes
         => smokeLog[i + 1].at >= smokeLog[i].ret + smoke.PollSeconds

\* C8: the poll loop always ends; it is left normally only with a polled
\* status of succeeded, failed or cancelled, and with the timeout error once
\* a non-terminal poll finds more than TimeoutSeconds elapsed; at least one
\* poll is made, and consecutive polls are PollSeconds apart.
C8_PollLoop ==
  /\ [](C8_PollLoopInv)
  /\ (smoke.pc = "poll") ~> (smoke.pc \notin {"poll", "sleep"})

\* C8 witness: the loop timed out after sleeping between two polls.
C8_Witness ==
  /\ smoke.pc = "failed"
  /\ smoke.error = "timeout"
  /\ Cardinality(PollIndexes) >= 2
  /\ smoke.PollSeconds >= 1

\* C9: the script completes only after a succeeded run with every HTTP call
\* successful; a failed or cancelled run, a timeout or a failed HTTP call
\* aborts it there, with no later step.
C9_CompleteOnlyOnSuccess ==
  /\ smoke.pc = "complete"
       => /\ smoke.runStatus = "succeeded"
          /\ \A i \in 1..Len(smokeLog) : smokeLog[i].outcome = "ok"
  /\ \A i \in 1..Len(smokeLog) - 1 : smokeLog[i].outcome = "ok"
  /\ (Len(smokeLog) > 0 /\ smokeLog[Len(smokeLog)].outcome = "failed")
       => smoke.pc = "failed"
  /\ (smoke.runStatus \in {"failed", "cancelled"} \/ smoke.error = "timeout")
       => /\ smoke.pc = "failed"
          /\ LogSteps \cap AfterLoopSteps = {}
  /\ smoke.pc = "failed" => ~ENABLED SmokeNext

\* C9 witness: a cancelled run aborted the script after the poll loop.
C9_Witness ==
  /\ smoke.pc = "failed"
  /\ smoke.error = "status"
  /\ smoke.runStatus = "cancelled"

\* The log entries of a step, as positions of the log.
LogAt(step) == { i \in 1..Len(smokeLog) : smokeLog[i].step = step }

Answered(step) == \E i \in LogAt(step) : smokeLog[i].outcome = "ok"

\* The first artifact of the listing has an id.
FirstArtifactHasId ==
  /\ smoke.arts.total > 0
  /\ Len(smoke.arts.items) > 0
  /\ smoke.arts.items[1] # EmptyId

\* C26: after a succeeded run the smoke script saves both listings and
\* downloads every export the exports listing returned, one file per export;
\* it downloads at most one artifact, the first of the artifacts listing, and
\* only when that listing reports total > 0 and the first item has an id;
\* otherwise it only warns and continues.
C26_ListingsAndDownloads ==
  /\ Answered("listArtifacts") => "artifacts_list.json" \in smoke.saved
  /\ Answered("listExports") => "exports_list.json" \in smoke.saved
  /\ Cardinality(LogAt("downloadArtifact")) <= 1
  /\ \A i \in LogAt("downloadArtifact") :
       /\ FirstArtifactHasId
       /\ smokeLog[i].request =
            SmokeRequest("downloadArtifact", smoke.wid, smoke.runId,
                         smoke.arts.items[1])
  /\ (Answered("listArtifacts") /\ ~FirstArtifactHasId) =>
       /\ smoke.warned
       /\ LogAt("downloadArtifact") = {}
       /\ smoke.error \in {None, "http"}
       /\ smoke.error = "http" => LogAt("listExports") # {}
  /\ smoke.pc = "complete" =>
       /\ Cardinality(LogAt("downloadExport")) = Len(smoke.exports)
       /\ \A n \in 1..Len(smoke.exports) :
            \E i \in LogAt("downloadExport") :
              /\ Cardinality({ j \in LogAt("downloadExport") : j <= i }) = n
              /\ smokeLog[i].request =
                   SmokeRequest("downloadExport", smoke.wid, smoke.runId,
                                smoke.exports[n])

-----------------------------------------------------------------------------
(* Properties of the backend start scripts.                                *)

\* The argument that follows an option on the command line.
ArgAfter(args, opt) ==
  IF \E i \in 1..Len(args) - 1 : args[i] = opt
    THEN args[(CHOOSE i \in 1..Len(args) - 1 : args[i] = opt) + 1]
    ELSE NoArg

ArgsHave(args, word) == \E i \in 1..Len(args) : args[i] = word

DevEnded == dev.pc \in {"serving", "done", "failed"}

\* C14: each start script launches uvicorn for app.main:app with --host and
\* --port equal to its host and port parameters (by default 127.0.0.1 and
\* the script's default port), and with --reload exactly when -Reload is
\* given.
C14_LaunchArguments ==
  /\ dev.launched =>
       /\ ArgAfter(dev.args, "-m") = "uvicorn"
       /\ ArgsHave(dev.args, "app.main:app")
       /\ ArgAfter(dev.args, "--host") =
            (IF dev.hostArg = NoArg THEN "127.0.0.1" ELSE dev.hostArg)
       /\ ArgAfter(dev.args, "--port") =
            (IF dev.portArg # NoArg THEN dev.portArg
             ELSE IF dev.script = "dev_api" THEN "18080" ELSE "18083")
       /\ ArgsHave(dev.args, "--reload") <=> dev.Reload
  /\ (DevEnded /\ dev.venv) => dev.launched

\* C25: when killing is requested (-KillExisting in scripts/dev_api.ps1,
\* -NoKill absent in the other start script) every process found listening
\* on the chosen port is sent a forced stop before uvicorn is started; when
\* killing is not requested no process is stopped.
C25_KillsListenersFirst ==
  /\ (dev.launched /\ WantsKill(dev.script, dev.killSwitch))
       => CollectedPids(dev) \subseteq dev.killed
  /\ ~WantsKill(dev.script, dev.killSwitch) => dev.killed = {}

-----------------------------------------------------------------------------
(* Response envelopes.                                                     *)

ListSteps == {"listArtifacts", "listExports"}

\* C11: every consumer reads a listing from the data array of the paginated
\* envelope and a single resource from data of { data, message? }: the pages
\* for each query they render, the smoke script for every reply it reads.
C11_ReadsDataEnvelope ==
  /\ \A k \in DOMAIN queries :
       queries[k].status = "success" => PageReads(k)[1] = "data"
  /\ \A i \in 1..Len(smokeLog) :
       smokeLog[i].outcome = "ok"
         => /\ \A f \in SmokeReads(smokeLog[i].step) : f[1] = "data"
            /\ smokeLog[i].step \in ListSteps
                 => <<"data">> \in SmokeReads(smokeLog[i].step)

-----------------------------------------------------------------------------
(* Endpoints.                                                              *)

\* The consumed-endpoint list.
ConsumedEndpoint(req) ==
  LET p == req.path
      m == req.method
  IN  /\ Len(p) >= 1
      /\ p[1] = "workspaces"
      /\ \/ Len(p) = 1 /\ m \in {"GET", "POST"}
         \/ Len(p) = 2 /\ m \in {"GET", "PATCH", "DELETE"}
         \/ Len(p) >= 3 /\ p[3] = "documents" /\ m \in {"GET", "POST", "DELETE"}
         \/ Len(p) >= 3 /\ p[3] = "interviews" /\ m \in {"GET", "POST"}
         \/ /\ Len(p) = 3 \/ (Len(p) = 4 /\ p[4] \in {"start", "cancel"})
            /\ p[3] = "pipeline"
            /\ m \in {"GET", "POST"}
         \/ /\ Len(p) = 3 \/ (Len(p) = 5 /\ p[5] = "download")
            /\ p[3] = "exports"
            /\ m \in {"GET", "POST"}

\* C10: every request of the web REST client and of the smoke script is on
\* the consumed-endpoint list; both start a pipeline with
\* POST /workspaces/{id}/pipeline/start and read its status with
\* GET /workspaces/{id}/pipeline.
C10_ConsumedEndpointsOnly ==
  /\ apiOutcome.sent => ConsumedEndpoint(apiOutcome.request)
  /\ (apiOutcome.sent /\ apiCall.fn = "pipelineApi.start")
       => apiOutcome.request =
            [method |-> "POST", path |-> <<"workspaces", apiCall.ws, "pipeline", "start">>]
  /\ (apiOutcome.sent /\ apiCall.fn = "pipelineApi.get")
       => apiOutcome.request =
            [method |-> "GET", path |-> <<"workspaces", apiCall.ws, "pipeline">>]
  /\ \A i \in 1..Len(smokeLog) :
       /\ ConsumedEndpoint(smokeLog[i].request)
       /\ smokeLog[i].step = "run"
            => smokeLog[i].request =
                 [method |-> "POST",
                  path |-> <<"workspaces", smoke.wid, "pipeline", "start">>]
       /\ smokeLog[i].step = "poll"
            => smokeLog[i].request =
                 [method |-> "GET", path |-> <<"workspaces", smoke.wid, "pipeline">>]

====
